---- MODULE Spec2Model ----
(***************************************************************************)
(* Model of the authorization-aware data pipeline of the Nasriya MongoDB   *)
(* adapter: the access evaluators of the client, the query and the         *)
(* aggregate, the CRUD operations of NasriyaDataClient and the document    *)
(* store they talk to.                                                     *)
(***************************************************************************)
EXTENDS Integers, Sequences, FiniteSets, TLC

VARIABLES
    authorization,  \* per client handle: #_config.authorization
    user,           \* per client handle: #_config.user
    permissions,    \* the collection definition's permissions, per access type
    schema,         \* the collection definition's schema for the field "f"
    hooks,          \* the collection definition's hooks (which are registered)
    store,          \* the documents of the collection, by _id
    pc,             \* per client handle: the save()/bulkSave() call in flight
    last,           \* what the operation that completed last did and returned
    eval,           \* the last verdict computed by an access evaluator
    clock,          \* the time new Date() returns
    stages,         \* DataAggregate._stages of the aggregate the caller builds
    database,       \* per client handle: #_config.database (selected, default)
    queryResult,    \* the QueryResult the caller holds
    queryObject,    \* DataFilter.#_queryObject of the filter the caller builds
    queryConfig     \* DataQuery.#_config.filter of the query the caller builds

vars == <<authorization, user, permissions, schema, hooks, store, pc, last, eval, clock,
          stages, database, queryResult, queryObject, queryConfig>>

\* What no operation of the client changes: the handles, the collection
\* definition and the clock, which the operations only read, and the objects
\* the caller builds apart from the client.
config == <<authorization, user, permissions, schema, hooks, clock, stages, database,
            queryResult, queryObject, queryConfig>>

----------------------------------------------------------------------------
(* Values *)

\* A property that is missing from an object, or a value that is undefined.
Absent == "undefined"

Clients == {"c1", "c2"}

AccessTypes == {"read", "write", "modify", "delete"}

Permission == {"Anyone", "Member", "MemberAuthor", "Admin"}

Verdicts == {"Allowed", "Denied", "Owned-Items"}

Roles == {"Visitor", "Member", "Admin"}

\* The id every client handle logs in with.
UserIdOf == [c \in Clients |-> IF c = "c1" THEN "u1" ELSE "u2"]

----------------------------------------------------------------------------
(* Client construction *)

\* The user a client handle has before the constructor copies the options.
DefaultUser == [id |-> Absent, loggedIn |-> FALSE, role |-> "Visitor"]

\* createClient validates the options and builds the constructor options:
\* the role and the id of the user are copied only for a logged-in user.
createClient(opts) ==
    [authorization |-> opts.authorization,
     user |-> IF opts.authorization = "User" /\ opts.user.loggedIn
              THEN [id |-> opts.user.id, loggedIn |-> TRUE, role |-> opts.user.role]
              ELSE [id |-> Absent, loggedIn |-> FALSE, role |-> "Visitor"]]

\* The constructor of NasriyaDataClient: the user is stored only under User
\* authorization; an absent authorization means User.
NasriyaDataClient(options) ==
    LET auth == IF options.authorization # Absent THEN options.authorization ELSE "User"
    IN  [authorization |-> auth,
         user |-> IF auth = "User"
                  THEN [id |-> options.user.id,
                        loggedIn |-> options.user.loggedIn = TRUE,
                        role |-> options.user.role]
                  ELSE DefaultUser]

\* The options createClient accepts for the handle c: a logged-in user has a
\* role of Admin or Member and a non-empty id.
ClientCreationOptions(c) ==
    [authorization : {"System", "User", Absent},
     user : [loggedIn : {FALSE}, role : {"Visitor"}, id : {Absent}]
            \cup [loggedIn : {TRUE}, role : {"Member", "Admin"}, id : {UserIdOf[c]}]]

NewClient(opts) == NasriyaDataClient(createClient(opts))

----------------------------------------------------------------------------
(* Access evaluators *)

DataQuery_authUser_NoLogin(auth, usr, permission) ==
    IF permission = Absent THEN "Allowed"
    ELSE IF auth = "User"
         THEN IF permission = "Anyone" THEN "Allowed"
              ELSE IF permission = "Admin" /\ usr.role # "Admin" THEN "Denied"
              ELSE IF permission = "MemberAuthor" THEN "Owned-Items"
              ELSE IF permission = "Member" THEN "Allowed"
              ELSE "Denied"
         ELSE "Allowed"

\* DataQuery.#_utils.authUser
DataQuery_authUser(auth, usr, permission) ==
    IF permission = Absent THEN "Allowed"
    ELSE IF auth = "User"
         THEN IF permission = "Anyone" THEN "Allowed"
              ELSE IF ~usr.loggedIn THEN "Denied"
              ELSE IF permission = "Admin" /\ usr.role # "Admin" THEN "Denied"
              ELSE IF permission = "MemberAuthor" THEN "Owned-Items"
              ELSE IF permission = "Member" THEN "Allowed"
              ELSE "Denied"
         ELSE "Allowed"

DataAggregate_authUser_UserOnly(auth, usr, permission) ==
    IF permission = Absent THEN "Allowed"
    ELSE IF permission = "Anyone" THEN "Allowed"
    ELSE IF ~usr.loggedIn THEN "Denied"
    ELSE IF permission = "Admin" /\ usr.role # "Admin" THEN "Denied"
    ELSE IF permission = "MemberAuthor" THEN "Owned-Items"
    ELSE IF permission = "Member" THEN "Allowed"
    ELSE "Denied"

\* DataAggregate._utils.authUser
DataAggregate_authUser(auth, usr, permission) ==
    IF permission = Absent THEN "Allowed"
    ELSE IF auth = "User"
         THEN IF permission = "Anyone" THEN "Allowed"
              ELSE IF ~usr.loggedIn THEN "Denied"
              ELSE IF permission = "Admin" /\ usr.role # "Admin" THEN "Denied"
              ELSE IF permission = "MemberAuthor" THEN "Owned-Items"
              ELSE IF permission = "Member" THEN "Allowed"
              ELSE "Denied"
         ELSE "Allowed"

\* NasriyaDataClient.#_utils.authUser
authUser(auth, usr, permission) ==
    IF permission = Absent THEN "Allowed"
    ELSE IF auth = "User"
         THEN IF permission = "Anyone" THEN "Allowed"
              ELSE IF ~usr.loggedIn THEN "Denied"
              ELSE IF permission = "Admin" /\ usr.role # "Admin" THEN "Denied"
              ELSE IF permission = "MemberAuthor" THEN "Owned-Items"
              ELSE IF permission = "Member" THEN "Allowed"
              ELSE "Denied"
         ELSE "Allowed"

prepareEvent_Unsuppressed(c, accessType, options) ==
    LET permission == IF permissions[accessType] # Absent
                      THEN permissions[accessType] ELSE "Allowed"
    IN  authUser(authorization[c], user[c], permission)

\* NasriyaDataClient.#_utils.prepareEvent, once the collection is found: an
\* unset permission is replaced by the string 'Allowed' before authUser.
prepareEvent(c, accessType, options) ==
    LET permission == IF permissions[accessType] # Absent
                      THEN permissions[accessType] ELSE "Allowed"
    IN  IF options.suppressAuth # TRUE
        THEN authUser(authorization[c], user[c], permission)
        ELSE "Allowed"

\* DataQuery.#_utils.prepareEvent, once the collection is known to exist.
DataQuery_prepareEvent(c, options) ==
    IF options.suppressAuth # TRUE
    THEN DataQuery_authUser(authorization[c], user[c], permissions["read"])
    ELSE "Allowed"

\* DataAggregate._utils.prepareEvent, once the collection is known to exist.
DataAggregate_prepareEvent(c, options) ==
    IF options.suppressAuth # TRUE
    THEN DataAggregate_authUser(authorization[c], user[c], permissions["read"])
    ELSE "Allowed"

\* The options of an operation call.
NasriyaDataOptions == [suppressAuth : BOOLEAN, suppressHooks : BOOLEAN]

\* The options of a call that passes none.
DefaultOptions == [suppressAuth |-> FALSE, suppressHooks |-> FALSE]

----------------------------------------------------------------------------
(* Items, documents and the schema *)

\* A key that an object does not have.
NoKey == "nokey"

\* The _id values callers use; a generated _id is one of them that is free.
Ids == {"i1", "i2"}

\* Values of the field "f": a string and a number.
Vals == {"a", "n7"}

\* The default value a schema declares for "f".
DefaultVal == "d"

TypeOf(v) == IF v = "n7" THEN "Number" ELSE "String"

\* The latest time the clock reaches.
MaxClock == 2

Times == 0..MaxClock

\* The value of a date field of an item: missing, a Date instance, a valid
\* date string, or a number, each standing for the time t.
NoDate == [rep |-> NoKey, t |-> 0]

DateValues == {NoDate} \cup [rep : {"Date", "string", "number"}, t : Times]

\* new Date(value) for a valid date string: the Date of the same time.
Date(value) == [rep |-> "Date", t |-> value.t]

\* The items callers pass: _id, f, _owner and the two dates are each present
\* or not.
Items ==
    [_id : Ids \cup {NoKey}, f : Vals \cup {NoKey}, _owner : {NoKey, "u2", "system", "System"},
     _createdDate : DateValues, _updatedDate : DateValues]

\* The longest array passed to a bulk operation.
MaxBulk == 2

\* The arrays of different items drawn from a set of items.
BulkItems(items) ==
    {batch \in UNION {[1..n -> items] : n \in 0..MaxBulk} :
        \A i, j \in DOMAIN batch : i # j => batch[i] # batch[j]}

\* The items of the calls on a collection without a schema: f is a string and
\* _owner is left to the adapter.
PlainItems ==
    {item \in Items : /\ item.f = "a" /\ item._owner = NoKey
                      /\ item._createdDate = NoDate /\ item._updatedDate = NoDate}

\* The items of the calls on a collection with a schema: new items, with every
\* case of f.
NewItems ==
    {item \in Items : /\ item._id = NoKey /\ item._owner = NoKey
                      /\ item._createdDate = NoDate /\ item._updatedDate = NoDate}

\* The schema of the field "f": none, a primitive type tag, or a custom field.
NoSchema == [kind |-> "none", type |-> Absent, required |-> NoKey,
             default |-> NoKey, validity |-> NoKey]

Schemas ==
    {NoSchema}
    \cup [kind : {"primitive"}, type : {"String"}, required : {NoKey},
          default : {NoKey}, validity : {NoKey}]
    \cup [kind : {"custom"}, type : {"String"}, required : {NoKey, "true", "false"},
          default : {NoKey, DefaultVal}, validity : {NoKey, "handler"}]
    \cup [kind : {"custom"}, type : {"Any"}, required : {NoKey, "true"},
          default : {NoKey}, validity : {"handler"}]

\* The validity handler the schema registers: it accepts the value "a" only.
handler(value) == value = "a"

\* checkType inside validateItemSchema: TRUE when the value passes.
checkType(schemaType, value) ==
    CASE schemaType = "String" -> TypeOf(value) = "String"
      [] schemaType = "Number" -> TypeOf(value) = "Number"
      [] schemaType = "Any" -> TRUE
      [] OTHER -> FALSE

\* NasriyaDataClient.#_utils.validateItemSchema for the field "f"; operation
\* is 'Insert', 'Update' or undefined.
validateItemSchema(item, sch, operation) ==
    IF sch.kind = "none" THEN [error |-> "none", item |-> item]
    ELSE IF sch.kind = "custom"
    THEN IF item.f # NoKey
         THEN IF sch.validity # NoKey
              THEN IF handler(item.f) THEN [error |-> "none", item |-> item]
                   ELSE [error |-> "schema", item |-> item]
              ELSE IF checkType(sch.type, item.f) THEN [error |-> "none", item |-> item]
                   ELSE [error |-> "schema", item |-> item]
         ELSE IF operation = "Insert"
              THEN IF sch.required # NoKey
                   THEN IF sch.default # NoKey
                        THEN [error |-> "none", item |-> [item EXCEPT !.f = sch.default]]
                        ELSE [error |-> "schema", item |-> item]
                   ELSE IF sch.default # NoKey
                        THEN [error |-> "none", item |-> [item EXCEPT !.f = sch.default]]
                        ELSE [error |-> "none", item |-> item]
              ELSE [error |-> "none", item |-> item]
    ELSE IF item.f # NoKey /\ ~checkType(sch.type, item.f)
         THEN [error |-> "schema", item |-> item]
         ELSE [error |-> "none", item |-> item]

insertDates_Unordered(item) ==
    LET created == IF item._createdDate = NoDate THEN [rep |-> "Date", t |-> clock]
                   ELSE IF item._createdDate.rep = "string" THEN Date(item._createdDate)
                   ELSE item._createdDate
        updated == IF item._updatedDate = NoDate THEN created
                   ELSE IF item._updatedDate.rep = "string" THEN Date(item._updatedDate)
                   ELSE item._updatedDate
    IN  IF created.rep # "Date" \/ updated.rep # "Date"
        THEN [error |-> "normalization", item |-> item]
        ELSE [error |-> "none",
              item |-> [item EXCEPT !._createdDate = created, !._updatedDate = updated]]

\* validateInsertItem, the dates: _createdDate is the given date or now,
\* _updatedDate the given date, which may not be before _createdDate, or
\* _createdDate. The error "dates" is the one thrown for the order.
insertDates(item) ==
    LET created == IF item._createdDate = NoDate THEN [rep |-> "Date", t |-> clock]
                   ELSE IF item._createdDate.rep = "string" THEN Date(item._createdDate)
                   ELSE item._createdDate
        updated == IF item._updatedDate = NoDate THEN created
                   ELSE IF item._updatedDate.rep = "string" THEN Date(item._updatedDate)
                   ELSE item._updatedDate
    IN  IF created.rep # "Date" \/ updated.rep # "Date"
        THEN [error |-> "normalization", item |-> item]
        ELSE IF updated.t < created.t
        THEN [error |-> "dates", item |-> item]
        ELSE [error |-> "none",
              item |-> [item EXCEPT !._createdDate = created, !._updatedDate = updated]]

\* String.prototype.toLowerCase on the owner strings and the database names.
toLowerCase(string) ==
    CASE string = "System" -> "system"
      [] string = "Main" -> "main"
      [] string \in {"Archive", "ARCHIVE"} -> "archive"
      [] string = "Audit" -> "audit"
      [] OTHER -> string

\* NasriyaDataClient.#_helpers.validateInsertItem: _id, the dates, _owner;
\* uuid is the string uuidx.v4() returns.
validateInsertItem(item, userId, auth, uuid) ==
    LET id == IF item._id # NoKey THEN item._id ELSE uuid
        dated == insertDates(item)
    IN  IF dated.error # "none" THEN dated
        ELSE IF auth = "System"
        THEN [error |-> "none", item |-> [dated.item EXCEPT !._id = id, !._owner = "system"]]
        ELSE IF item._owner # NoKey
             THEN IF toLowerCase(item._owner) = "system"
                  THEN [error |-> "normalization", item |-> item]
                  ELSE [error |-> "none", item |-> [dated.item EXCEPT !._id = id]]
             ELSE [error |-> "none", item |-> [dated.item EXCEPT !._id = id, !._owner = userId]]

validateUpdateItem_KeepOwner(item) ==
    IF item._id = NoKey
    THEN [error |-> "normalization", item |-> item]
    ELSE [error |-> "none",
          item |-> [item EXCEPT !._createdDate = NoDate,
                                !._updatedDate = [rep |-> "Date", t |-> clock]]]

\* NasriyaDataClient.#_helpers.validateUpdateItem: _id is required,
\* _createdDate and _owner are deleted, _updatedDate is now.
validateUpdateItem(item) ==
    IF item._id = NoKey
    THEN [error |-> "normalization", item |-> item]
    ELSE [error |-> "none",
          item |-> [item EXCEPT !._owner = NoKey, !._createdDate = NoDate,
                                !._updatedDate = [rep |-> "Date", t |-> clock]]]

----------------------------------------------------------------------------
(* The document store: one collection, documents by _id *)

\* The owners a stored document can have; Absent is a null _owner.
Owners == {"u1", "u2", "system", "System", Absent}

Docs == [owner : Owners, f : Vals \cup {DefaultVal, NoKey}, created : Times, updated : Times]

\* The document a collection stores for an item.
DocOf(item) ==
    [owner |-> item._owner, f |-> item.f,
     created |-> item._createdDate.t, updated |-> item._updatedDate.t]

\* The document after $set: item, which writes the keys the item has.
SetIn(doc, item) ==
    [owner |-> IF item._owner # NoKey THEN item._owner ELSE doc.owner,
     f |-> IF item.f # NoKey THEN item.f ELSE doc.f,
     created |-> IF item._createdDate # NoDate THEN item._createdDate.t ELSE doc.created,
     updated |-> IF item._updatedDate # NoDate THEN item._updatedDate.t ELSE doc.updated]

\* The collections that exist in the store and are defined in the database.
StoreCollections == {"Members"}

DefinedCollections == {"Members"}

CollectionNames == {"Members", "Ghost"}

Put(st, id, doc) == [i \in DOMAIN st \cup {id} |-> IF i = id THEN doc ELSE st[i]]

Drop(st, ids) == [i \in DOMAIN st \ ids |-> st[i]]

\* The ids of the documents that match the criteria {_id (or _id: {$in}), _owner?}.
Matching(st, criteria) ==
    {id \in DOMAIN st : /\ id \in criteria.ids
                        /\ (criteria.owner # NoKey => st[id].owner = criteria.owner)}

OwnersOf(st, ids) == {st[id].owner : id \in ids}

\* collection.insertOne: a duplicate _id is a write error.
insertOne(st, item) ==
    IF item._id \in DOMAIN st
    THEN [error |-> "storage", store |-> st, inserted |-> {}]
    ELSE [error |-> "none", inserted |-> {item._id},
          store |-> Put(st, item._id, DocOf(item))]

\* The documents of an ordered batch are inserted in order; the first write
\* error stops the batch and keeps what was inserted before it.
RECURSIVE insertInOrder(_, _)
insertInOrder(st, items) ==
    IF items = <<>> THEN [error |-> "none", store |-> st, inserted |-> {}]
    ELSE LET r == insertOne(st, Head(items))
         IN  IF r.error # "none" THEN r
             ELSE LET rest == insertInOrder(r.store, Tail(items))
                  IN  [error |-> rest.error, store |-> rest.store,
                       inserted |-> r.inserted \cup rest.inserted]

\* collection.insertMany, ordered; the driver rejects an empty batch.
insertMany(st, items) ==
    IF items = <<>> THEN [error |-> "storage", store |-> st, inserted |-> {}]
    ELSE insertInOrder(st, items)

\* collection.updateOne(criteria, {$set: item}, {upsert}): the keys of the item
\* are written to the matching document; with upsert and no match a document
\* is created from the equality fields of the criteria and the item.
updateOne(st, criteria, item, upsert) ==
    LET found == Matching(st, criteria)
        id == CHOOSE i \in criteria.ids : TRUE
        none == [error |-> "none", store |-> st, owners |-> {}, created |-> {},
                 modified |-> {}]
    IN  IF found # {}
        THEN IF item._id # NoKey /\ item._id # id
             THEN [none EXCEPT !.error = "storage"]
             ELSE [error |-> "none", owners |-> OwnersOf(st, found), created |-> {},
                   store |-> Put(st, id, SetIn(st[id], item)),
                   modified |-> IF SetIn(st[id], item) # st[id] THEN {id} ELSE {}]
        ELSE IF upsert
             THEN IF id \in DOMAIN st
                  THEN [none EXCEPT !.error = "storage"]
                  ELSE [error |-> "none", owners |-> {}, created |-> {id},
                        modified |-> {},
                        store |-> Put(st, id,
                            [DocOf(item) EXCEPT
                                !.owner = IF item._owner # NoKey THEN item._owner
                                          ELSE IF criteria.owner # NoKey THEN criteria.owner
                                          ELSE Absent])]
             ELSE none

\* collection.deleteOne / deleteMany
deleteMany(st, criteria) ==
    LET found == Matching(st, criteria)
    IN  [error |-> "none", store |-> Drop(st, found), owners |-> OwnersOf(st, found)]

\* The updateOne and insertOne operations of an ordered batch run in order,
\* and the first write error stops the batch.
RECURSIVE writeInOrder(_, _)
writeInOrder(st, ops) ==
    IF ops = <<>>
    THEN [error |-> "none", store |-> st, owners |-> {}, created |-> {},
          modified |-> {}, upserted |-> {}]
    ELSE LET op == Head(ops)
             r == IF op.kind = "updateOne"
                  THEN LET u == updateOne(st, op.criteria, op.item, FALSE)
                       IN  [error |-> u.error, store |-> u.store, owners |-> u.owners,
                            created |-> u.created, modified |-> u.modified,
                            upserted |-> u.created]
                  ELSE LET i == insertOne(st, op.item)
                       IN  [error |-> i.error, store |-> i.store, owners |-> {},
                            created |-> i.inserted, modified |-> {}, upserted |-> {}]
         IN  IF r.error # "none" THEN r
             ELSE LET rest == writeInOrder(r.store, Tail(ops))
                  IN  [error |-> rest.error, store |-> rest.store,
                       owners |-> r.owners \cup rest.owners,
                       created |-> r.created \cup rest.created,
                       modified |-> r.modified \cup rest.modified,
                       upserted |-> r.upserted \cup rest.upserted]

\* collection.bulkWrite, ordered; the driver rejects an empty batch. Of the
\* result, modified are the documents an updateOne changed and upserted those
\* an updateOne created.
bulkWrite(st, ops) ==
    IF ops = <<>>
    THEN [error |-> "storage", store |-> st, owners |-> {}, created |-> {},
          modified |-> {}, upserted |-> {}]
    ELSE writeInOrder(st, ops)

----------------------------------------------------------------------------
(* The hook pipeline *)

\* The hooks a collection definition can register.
HookNames ==
    {"beforeGetItem", "afterGetItem", "beforeInsert", "afterInsert",
     "beforeBulkInsert", "afterBulkInsert", "beforeRemove", "afterRemove",
     "beforeBulkRemove", "afterBulkRemove", "beforeUpdate", "afterUpdate",
     "beforeBulkUpdate", "onFailure"}

\* What a registered hook does with its payload: it returns nothing, it
\* returns a new value of the expected shape, it changes the object it was
\* handed and returns nothing, or it throws. Absent is a hook that is not
\* registered.
HookBehaviours == {"returns", "replaces", "edits", "throws"}

\* A hook that returns a value of another shape than its runner expects:
\* "malformed" is the number 7, returned by any hook; "mixed" is the array
\* [7], which holds a value that is no object, returned by a hook of the bulk
\* item runners beforeBulkInsert, afterBulkInsert and beforeBulkUpdate.
MalformedOutputs == {"malformed", "mixed"}

NoHooks == [name \in HookNames |-> Absent]

\* The object a hook makes of an item: another f, an _owner and a
\* _createdDate of its own.
Replaced(item) ==
    [item EXCEPT !.f = "n7", !._owner = "u2",
                 !._createdDate = [rep |-> "Date", t |-> MaxClock]]

\* The string a hook returns in place of an item id.
ReplacedId(itemId) == IF itemId = "i1" THEN "i2" ELSE "i1"

Invoked_Unsuppressed(name, options) == hooks[name]

\* if (options?.suppressHooks !== true) { if (typeof hook === 'function') ...:
\* the behaviour of the hook that is invoked, Absent when none is.
Invoked(name, options) ==
    IF options.suppressHooks # TRUE THEN hooks[name] ELSE Absent

\* The runners of the hooks that take and return an item id: the hook's
\* string replaces the id.
stringHook(runner, name, itemId, options) ==
    LET hook == Invoked(name, options)
    IN  [error |-> IF hook = "throws" THEN "hook" ELSE "none",
         value |-> IF hook = "replaces" THEN ReplacedId(itemId) ELSE itemId,
         invoked |-> IF hook # Absent THEN {name} ELSE {}]

beforeGetItem(itemId, options) == stringHook("beforeGetItem", "beforeGetItem", itemId, options)

beforeRemove(itemId, options) == stringHook("beforeRemove", "beforeRemove", itemId, options)

\* remove() hands hooks?.beforeRemove to the afterRemove runner.
afterRemove(itemId, options) == stringHook("afterRemove", "beforeRemove", itemId, options)

afterUpdate(itemId, options) == stringHook("afterUpdate", "afterUpdate", itemId, options)

\* beforeBulkRemove: the hook's array replaces the ids.
beforeBulkRemove(itemsIds, options) ==
    LET hook == Invoked("beforeBulkRemove", options)
    IN  [error |-> IF hook = "throws" THEN "hook" ELSE "none",
         value |-> IF hook = "replaces" THEN {ReplacedId(id) : id \in itemsIds}
                   ELSE itemsIds,
         invoked |-> IF hook # Absent THEN {"beforeBulkRemove"} ELSE {}]

\* The runners of the hooks that see the documents an operation read or
\* wrote: afterGetItem, afterInsert, afterBulkInsert.
afterHook(name, options) ==
    LET hook == Invoked(name, options)
    IN  [error |-> IF hook = "throws" THEN "hook"
                   ELSE IF hook = "mixed" /\ name = "afterBulkInsert" THEN "hookOutput"
                   ELSE "none",
         invoked |-> IF hook # Absent THEN {name} ELSE {}]

\* beforeInsert: validateInsertItem, then the hook, whose object goes through
\* validateInsertItem again.
beforeInsert(item, userId, auth, uuid, options) ==
    LET first == validateInsertItem(item, userId, auth, uuid)
        hook == Invoked("beforeInsert", options)
        invoked == IF hook # Absent THEN {"beforeInsert"} ELSE {}
    IN  IF first.error # "none"
        THEN [error |-> first.error, item |-> first.item, invoked |-> {}]
        ELSE IF hook = "throws"
        THEN [error |-> "hook", item |-> first.item, invoked |-> invoked]
        ELSE IF hook = "replaces"
        THEN LET second == validateInsertItem(Replaced(first.item), userId, auth, uuid)
             IN  [error |-> second.error, item |-> second.item, invoked |-> invoked]
        ELSE IF hook = "edits"
        THEN [error |-> "none", item |-> Replaced(first.item), invoked |-> invoked]
        ELSE [error |-> "none", item |-> first.item, invoked |-> invoked]

\* The first error of a sequence of validation results, "none" if there is none.
FirstError(results) ==
    IF \A i \in DOMAIN results : results[i].error = "none" THEN "none"
    ELSE LET k == CHOOSE i \in DOMAIN results :
                    /\ results[i].error # "none"
                    /\ \A j \in DOMAIN results : j < i => results[j].error = "none"
         IN  results[k].error

\* beforeBulkInsert: validateInsertItem of every item, then the hook, whose
\* array is validated too; the runner returns eventArgs.items.
beforeBulkInsert(items, userId, auth, uuids, options) ==
    LET first == [i \in DOMAIN items |-> validateInsertItem(items[i], userId, auth, uuids[i])]
        hook == Invoked("beforeBulkInsert", options)
        invoked == IF hook # Absent THEN {"beforeBulkInsert"} ELSE {}
        second == [i \in DOMAIN items |->
                      validateInsertItem(Replaced(first[i].item), userId, auth, uuids[i])]
    IN  IF FirstError(first) # "none"
        THEN [error |-> FirstError(first), items |-> items, invoked |-> {}]
        ELSE IF hook = "throws"
        THEN [error |-> "hook", items |-> items, invoked |-> invoked]
        ELSE IF hook = "mixed"
        THEN \* throw new TypeError('One or more of the items are not valid...')
             [error |-> "hookOutput", items |-> items, invoked |-> invoked]
        ELSE IF hook = "replaces"
        THEN [error |-> FirstError(second),
              items |-> [i \in DOMAIN items |-> first[i].item], invoked |-> invoked]
        ELSE IF hook = "edits"
        THEN [error |-> "none",
              items |-> [i \in DOMAIN items |-> Replaced(first[i].item)], invoked |-> invoked]
        ELSE [error |-> "none",
              items |-> [i \in DOMAIN items |-> first[i].item], invoked |-> invoked]

\* beforeUpdate: validateUpdateItem, then the hook, whose object goes through
\* validateUpdateItem again and is returned; passed is the object the caller
\* passed to update(), as the runner leaves it.
beforeUpdate(item, options) ==
    LET first == validateUpdateItem(item)
        hook == Invoked("beforeUpdate", options)
        invoked == IF hook # Absent THEN {"beforeUpdate"} ELSE {}
    IN  IF first.error # "none"
        THEN [error |-> first.error, item |-> first.item, passed |-> first.item,
              invoked |-> {}]
        ELSE IF hook = "throws"
        THEN [error |-> "hook", item |-> first.item, passed |-> first.item,
              invoked |-> invoked]
        ELSE IF hook = "replaces"
        THEN LET second == validateUpdateItem(Replaced(first.item))
             IN  [error |-> second.error, item |-> second.item, passed |-> first.item,
                  invoked |-> invoked]
        ELSE IF hook = "edits"
        THEN [error |-> "none", item |-> Replaced(first.item),
              passed |-> Replaced(first.item), invoked |-> invoked]
        ELSE [error |-> "none", item |-> first.item, passed |-> first.item,
              invoked |-> invoked]

\* beforeBulkUpdate: validateUpdateItem of every item, then the hook, whose
\* array goes through validateUpdateItem and is returned.
beforeBulkUpdate(items, options) ==
    LET first == [i \in DOMAIN items |-> validateUpdateItem(items[i])]
        hook == Invoked("beforeBulkUpdate", options)
        invoked == IF hook # Absent THEN {"beforeBulkUpdate"} ELSE {}
        second == [i \in DOMAIN items |-> validateUpdateItem(Replaced(first[i].item))]
    IN  IF FirstError(first) # "none"
        THEN [error |-> FirstError(first), items |-> items, invoked |-> {}]
        ELSE IF hook = "throws"
        THEN [error |-> "hook", items |-> items, invoked |-> invoked]
        ELSE IF hook = "mixed"
        THEN \* throw new TypeError('One or more of the items are not valid...')
             [error |-> "hookOutput", items |-> items, invoked |-> invoked]
        ELSE IF hook = "replaces"
        THEN [error |-> FirstError(second),
              items |-> [i \in DOMAIN items |-> second[i].item], invoked |-> invoked]
        ELSE IF hook = "edits"
        THEN [error |-> "none",
              items |-> [i \in DOMAIN items |-> Replaced(first[i].item)], invoked |-> invoked]
        ELSE [error |-> "none",
              items |-> [i \in DOMAIN items |-> first[i].item], invoked |-> invoked]

----------------------------------------------------------------------------
(* What an operation did: the record kept in last *)

\* The store calls that change documents.
MutationCalls == {"insertOne", "insertMany", "updateOne", "deleteOne", "deleteMany", "bulkWrite"}

\* #_events.onFailure, the Failure Reporter: the number of times it invokes the
\* onFailure hook of the collection; it always ends by throwing.
onFailure(options) ==
    IF Invoked("onFailure", options) # Absent THEN 1 ELSE 0

\* What a call that returned threw: nothing.
NoThrow == [kind |-> "none", type |-> "none", error |-> "none"]

onFailureThrows_HookError(dataOperation, options, error) ==
    IF Invoked("onFailure", options) = "throws"
    THEN [kind |-> "raw", type |-> "none", error |-> "hook"]
    ELSE [kind |-> "record", type |-> dataOperation, error |-> error]

\* #_events.onFailure: what it throws, the record { type, context, error };
\* an error the hook throws is caught and logged.
onFailureThrows(dataOperation, options, error) ==
    [kind |-> "record", type |-> dataOperation, error |-> error]

\* What bulkSave returns; nothing for the other operations.
NoResult == [operation |-> "none", insertedCount |-> 0, updatedCount |-> 0]

NoOperation ==
    [op |-> "none", client |-> "c1",
     options |-> [suppressAuth |-> FALSE, suppressHooks |-> FALSE],
     verdict |-> Absent, error |-> "none", reported |-> 0, hookCalls |-> 0,
     calls |-> {}, criteriaOwners |-> {}, owners |-> {}, created |-> {},
     hooksInvoked |-> {}, thrown |-> NoThrow, returned |-> NoResult]

\* The handle whose calls are recorded in last; a step of the other handle
\* shows in the store only and leaves no outcome in last.
Observed == {"c1"}

\* An operation that threw before its try block: nothing is reported.
Thrown(op, c, options, verdict, error, calls) ==
    IF c \notin Observed THEN NoOperation ELSE
    [op |-> op, client |-> c, options |-> options, verdict |-> verdict, error |-> error,
     reported |-> 0, hookCalls |-> 0, calls |-> calls,
     criteriaOwners |-> {}, owners |-> {}, created |-> {},
     hooksInvoked |-> {}, thrown |-> [kind |-> "raw", type |-> "none", error |-> error],
     returned |-> NoResult]

\* An operation that left its try block: by returning (error "none") or through
\* the catch, which calls the Failure Reporter once.
Finished(op, c, options, verdict, error, calls, criteriaOwners, owners, created) ==
    IF c \notin Observed THEN NoOperation ELSE
    [op |-> op, client |-> c, options |-> options, verdict |-> verdict, error |-> error,
     reported |-> IF error # "none" THEN 1 ELSE 0,
     hookCalls |-> IF error # "none" THEN onFailure(options) ELSE 0,
     calls |-> calls, criteriaOwners |-> criteriaOwners, owners |-> owners,
     created |-> created,
     hooksInvoked |-> IF error # "none" /\ onFailure(options) = 1 THEN {"onFailure"} ELSE {},
     thrown |-> IF error # "none" THEN onFailureThrows(op, options, error) ELSE NoThrow,
     returned |-> NoResult]

\* The outcome of an operation whose runners invoked the hooks named.
WithHooks(outcome, invoked) ==
    IF outcome.op = "none" THEN outcome
    ELSE [outcome EXCEPT !.hooksInvoked = @ \cup invoked]

\* The outcome of an operation that returned a result.
WithResult(outcome, returned) ==
    IF outcome.op = "none" \/ outcome.error # "none" THEN outcome
    ELSE [outcome EXCEPT !.returned = returned]

\* The outcome of an operation that returned the promise of its after hook
\* without awaiting it: the rejection passes by the catch of the operation.
Uncaught(outcome, error) ==
    IF outcome.op = "none" \/ error = "none" THEN outcome
    ELSE [outcome EXCEPT !.error = error,
                         !.thrown = [kind |-> "raw", type |-> "none", error |-> error]]

\* #_utils.checkArgs: the collection must exist in the store, and an itemId
\* must be a non-empty string.
checkArgs(collectionName, argType, value) ==
    IF collectionName \notin StoreCollections THEN "collection"
    ELSE IF argType = "String" /\ value = "" THEN "args"
    ELSE "none"

Prechecks_NoDeny(c, accessType, collectionName, argType, value, options) ==
    LET argError == checkArgs(collectionName, argType, value)
        verdict == prepareEvent(c, accessType, options)
    IN  IF argError # "none" THEN [error |-> argError, verdict |-> Absent]
        ELSE IF collectionName \notin DefinedCollections
             THEN [error |-> "collection", verdict |-> Absent]
        ELSE [error |-> "none", verdict |-> verdict]

\* The prechecks every operation runs before its try block: checkArgs, then
\* prepareEvent, which throws for an undefined collection and for Denied.
Prechecks(c, accessType, collectionName, argType, value, options) ==
    LET argError == checkArgs(collectionName, argType, value)
        verdict == prepareEvent(c, accessType, options)
    IN  IF argError # "none" THEN [error |-> argError, verdict |-> Absent]
        ELSE IF collectionName \notin DefinedCollections
             THEN [error |-> "collection", verdict |-> Absent]
        ELSE IF verdict = "Denied" THEN [error |-> "denied", verdict |-> verdict]
        ELSE [error |-> "none", verdict |-> verdict]

\* A call that has started and has no outcome yet.
Started(c) == NoOperation

Idle == [op |-> "idle"]

\* The itemId arguments callers pass.
ItemIds == Ids \cup {""}

----------------------------------------------------------------------------
(* getItem, remove, bulkRemove *)

\* getItem: { _id: newItemId, ...(permission === 'Owned-Items' ? { _owner } : {}) }
getItemCriteria(c, itemId, permission) ==
    [ids |-> {itemId},
     owner |-> IF permission = "Owned-Items" THEN user[c].id ELSE NoKey]

GetItem(c, collectionName, itemId, options) ==
    LET pre == Prechecks(c, "read", collectionName, "String", itemId, options)
        before == beforeGetItem(itemId, options)
        criteria == getItemCriteria(c, before.value, pre.verdict)
        found == Matching(store, criteria)
        \* if (!item) { return null } comes before the after hook
        after == IF found = {} THEN [error |-> "none", invoked |-> {}]
                 ELSE afterHook("afterGetItem", options)
    IN  /\ pc[c] = Idle
        /\ last' = IF pre.error # "none"
                   THEN Thrown("getItem", c, options, pre.verdict, pre.error,
                               {"listCollections"})
                   ELSE IF before.error # "none"
                   THEN WithHooks(Finished("getItem", c, options, pre.verdict, before.error,
                                           {"listCollections"}, {}, {}, {}),
                                  before.invoked)
                   ELSE WithHooks(Finished("getItem", c, options, pre.verdict, after.error,
                                           {"listCollections", "findOne"}, {criteria.owner},
                                           OwnersOf(store, found), {}),
                                  before.invoked \cup after.invoked)
        /\ UNCHANGED <<config, store, pc, eval>>

removeCriteria_NoOwner(c, itemId, permission) ==
    [ids |-> {itemId}, owner |-> NoKey]

\* remove: { _id: beforeItemId, ...(permission === 'Owned-Items' ? { _owner } : {}) }
removeCriteria(c, itemId, permission) ==
    [ids |-> {itemId},
     owner |-> IF permission = "Owned-Items" THEN user[c].id ELSE NoKey]

Remove(c, collectionName, itemId, options) ==
    LET pre == Prechecks(c, "delete", collectionName, "String", itemId, options)
        before == beforeRemove(itemId, options)
        criteria == removeCriteria(c, before.value, pre.verdict)
        result == deleteMany(store, criteria)
        after == afterRemove(before.value, options)
    IN  /\ pc[c] = Idle
        /\ IF pre.error # "none"
           THEN /\ last' = Thrown("remove", c, options, pre.verdict, pre.error,
                                  {"listCollections"})
                /\ store' = store
           ELSE IF before.error # "none"
           THEN /\ last' = WithHooks(Finished("remove", c, options, pre.verdict,
                                              before.error, {"listCollections"}, {}, {}, {}),
                                     before.invoked)
                /\ store' = store
           ELSE /\ last' = WithHooks(Finished("remove", c, options, pre.verdict, after.error,
                                              {"listCollections", "deleteOne"},
                                              {criteria.owner}, result.owners, {}),
                                     before.invoked \cup after.invoked)
                /\ store' = result.store
        /\ UNCHANGED <<config, pc, eval>>

\* bulkRemove: { _id: { $in: beforeIds }, ...(permission === 'Owned-Items' ? { _owner } : {}) }
bulkRemoveCriteria(c, itemsIds, permission) ==
    [ids |-> itemsIds,
     owner |-> IF permission = "Owned-Items" THEN user[c].id ELSE NoKey]

BulkRemove(c, collectionName, itemsIds, options) ==
    LET pre == Prechecks(c, "delete", collectionName, "Array", itemsIds, options)
        before == beforeBulkRemove(itemsIds, options)
        criteria == bulkRemoveCriteria(c, before.value, pre.verdict)
        result == deleteMany(store, criteria)
    IN  /\ pc[c] = Idle
        /\ IF pre.error # "none"
           THEN /\ last' = Thrown("bulkRemove", c, options, pre.verdict, pre.error,
                                  {"listCollections"})
                /\ store' = store
           ELSE IF before.error # "none"
           THEN /\ last' = WithHooks(Finished("bulkRemove", c, options, pre.verdict,
                                              before.error, {"listCollections"}, {}, {}, {}),
                                     before.invoked)
                /\ store' = store
           ELSE /\ last' = WithHooks(Finished("bulkRemove", c, options, pre.verdict, "none",
                                              {"listCollections", "deleteMany"},
                                              {criteria.owner}, result.owners, {}),
                                     before.invoked)
                /\ store' = result.store
        /\ UNCHANGED <<config, pc, eval>>

----------------------------------------------------------------------------
(* insert, bulkInsert *)

\* The strings uuidx.v4() can return for the items of one call: one unused
\* _id for each item that has none, all different.
Uuids(items) ==
    LET supplied == {items[i]._id : i \in DOMAIN items}
        free == Ids \ (DOMAIN store \cup supplied)
    IN  {g \in [DOMAIN items -> Ids \cup {NoKey}] :
            /\ \A i \in DOMAIN items :
                  IF items[i]._id = NoKey THEN g[i] \in free ELSE g[i] = NoKey
            /\ \A i, j \in DOMAIN items : (i # j /\ g[i] # NoKey) => g[i] # g[j]}

Insert(c, collectionName, item, options, uuid) ==
    LET pre == Prechecks(c, "write", collectionName, "Object", item, options)
        \* beforeInsert: validateInsertItem, then the hook when one is registered
        beforeItem == beforeInsert(item, user[c].id, authorization[c], uuid, options)
        \* validateItemSchema(beforeItem, collection.schema): no operation is passed
        finalItem == validateItemSchema(beforeItem.item, schema, Absent)
        result == insertOne(store, finalItem.item)
        \* return this.#_events.afterInsert(...): the promise is not awaited
        after == afterHook("afterInsert", options)
        calls == {"listCollections"}
    IN  /\ pc[c] = Idle
        /\ IF pre.error # "none"
           THEN /\ last' = Thrown("insert", c, options, pre.verdict, pre.error, calls)
                /\ store' = store
           ELSE IF beforeItem.error # "none"
           THEN /\ last' = WithHooks(Finished("insert", c, options, pre.verdict,
                                              beforeItem.error, calls, {}, {}, {}),
                                     beforeItem.invoked)
                /\ store' = store
           ELSE IF finalItem.error # "none"
           THEN /\ last' = WithHooks(Finished("insert", c, options, pre.verdict,
                                              finalItem.error, calls, {}, {}, {}),
                                     beforeItem.invoked)
                /\ store' = store
           ELSE IF result.error # "none"
           THEN /\ last' = WithHooks(Finished("insert", c, options, pre.verdict,
                                              result.error, calls \cup {"insertOne"},
                                              {}, {}, result.inserted),
                                     beforeItem.invoked)
                /\ store' = result.store
           ELSE /\ last' = WithHooks(
                               Uncaught(Finished("insert", c, options, pre.verdict, "none",
                                                 calls \cup {"insertOne", "findOne"},
                                                 {}, {}, result.inserted),
                                        after.error),
                               beforeItem.invoked \cup after.invoked)
                /\ store' = result.store
        /\ UNCHANGED <<config, pc, eval>>

\* bulkInsert, the stats of its result: insertedIds are the values of
\* result.insertedIds, insertedItems the documents find({ _id: { $in } })
\* returns, and skippedIds = finalItems.filter(i => typeof i?._id === 'string'
\* && insertedIds.includes(i?._id)).map(i => i._id).
bulkInsertStats(finalItems, insertedIds, st) ==
    LET ids == {finalItems[i]._id : i \in DOMAIN finalItems}
        insertedItems == ids \cap DOMAIN st
    IN  [inserted |-> Cardinality(insertedIds),
         skipped |-> Len(finalItems) - Cardinality(insertedItems),
         insertedIds |-> insertedIds,
         skippedIds |-> (ids \ {NoKey}) \cap insertedIds]

BulkInsert(c, collectionName, items, options, uuids) ==
    LET pre == Prechecks(c, "write", collectionName, "Array", items, options)
        \* beforeBulkInsert: validateInsertItem of every item, then the hook
        beforeItems == beforeBulkInsert(items, user[c].id, authorization[c], uuids, options)
        \* validateItemSchema(beforeItem, collection.schema) of every item
        finalItems == [i \in DOMAIN items |->
                          validateItemSchema(beforeItems.items[i], schema, Absent)]
        result == insertMany(store, [i \in DOMAIN items |-> finalItems[i].item])
        after == afterHook("afterBulkInsert", options)
        calls == {"listCollections"}
    IN  /\ pc[c] = Idle
        /\ IF pre.error # "none"
           THEN /\ last' = Thrown("bulkInsert", c, options, pre.verdict, pre.error, calls)
                /\ store' = store
           ELSE IF beforeItems.error # "none"
           THEN /\ last' = WithHooks(Finished("bulkInsert", c, options, pre.verdict,
                                              beforeItems.error, calls, {}, {}, {}),
                                     beforeItems.invoked)
                /\ store' = store
           ELSE IF FirstError(finalItems) # "none"
           THEN /\ last' = WithHooks(Finished("bulkInsert", c, options, pre.verdict,
                                              FirstError(finalItems), calls, {}, {}, {}),
                                     beforeItems.invoked)
                /\ store' = store
           ELSE IF result.error # "none"
           THEN /\ last' = WithHooks(Finished("bulkInsert", c, options, pre.verdict,
                                              result.error, calls \cup {"insertMany"},
                                              {}, {}, result.inserted),
                                     beforeItems.invoked)
                /\ store' = result.store
           ELSE /\ last' = WithResult(
                               WithHooks(Finished("bulkInsert", c, options, pre.verdict,
                                                  after.error,
                                                  calls \cup {"insertMany", "find"},
                                                  {}, {}, result.inserted),
                                         beforeItems.invoked \cup after.invoked),
                               bulkInsertStats([i \in DOMAIN items |-> finalItems[i].item],
                                               result.inserted, result.store))
                /\ store' = result.store
        /\ UNCHANGED <<config, pc, eval>>

----------------------------------------------------------------------------
(* update, bulkUpdate *)

\* update: { _id: finalItem._id, ...(permission === 'Owned-Items' ? { _owner } : {}) }
updateCriteria(c, itemId, permission) ==
    [ids |-> {itemId},
     owner |-> IF permission = "Owned-Items" THEN user[c].id ELSE NoKey]

Update(c, collectionName, item, options) ==
    LET pre == Prechecks(c, "modify", collectionName, "Object", item, options)
        \* beforeUpdate: validateUpdateItem, then the hook when one is registered
        beforeItem == beforeUpdate(item, options)
        finalItem == validateItemSchema(beforeItem.item, schema, "Update")
        criteria == updateCriteria(c, finalItem.item._id, pre.verdict)
        \* updateOne(criteria, { $set: item }): the object passed to update()
        result == updateOne(store, criteria, beforeItem.passed, FALSE)
        after == afterUpdate(finalItem.item._id, options)
        calls == {"listCollections"}
    IN  /\ pc[c] = Idle
        /\ IF pre.error # "none"
           THEN /\ last' = Thrown("update", c, options, pre.verdict, pre.error, calls)
                /\ store' = store
           ELSE IF beforeItem.error # "none"
           THEN /\ last' = WithHooks(Finished("update", c, options, pre.verdict,
                                              beforeItem.error, calls, {}, {}, {}),
                                     beforeItem.invoked)
                /\ store' = store
           ELSE IF finalItem.error # "none"
           THEN /\ last' = WithHooks(Finished("update", c, options, pre.verdict,
                                              finalItem.error, calls, {}, {}, {}),
                                     beforeItem.invoked)
                /\ store' = store
           ELSE IF result.error # "none"
           THEN /\ last' = WithHooks(Finished("update", c, options, pre.verdict,
                                              result.error, calls \cup {"updateOne"},
                                              {criteria.owner}, result.owners,
                                              result.created),
                                     beforeItem.invoked)
                /\ store' = result.store
           ELSE /\ last' = WithHooks(Finished("update", c, options, pre.verdict, after.error,
                                              calls \cup {"updateOne"}, {criteria.owner},
                                              result.owners, result.created),
                                     beforeItem.invoked \cup after.invoked)
                /\ store' = result.store
        /\ UNCHANGED <<config, pc, eval>>

\* bulkUpdate: filter: { _id: item._id, ...(permission === 'Owned-Items' ? { _owner } : {}) }
bulkUpdateFilter(c, itemId, permission) ==
    [ids |-> {itemId},
     owner |-> IF permission = "Owned-Items" THEN user[c].id ELSE NoKey]

BulkUpdate(c, collectionName, items, options) ==
    LET pre == Prechecks(c, "modify", collectionName, "Array", items, options)
        \* beforeBulkUpdate: validateUpdateItem of every item, then the hook
        beforeItems == beforeBulkUpdate(items, options)
        finalItems == [i \in DOMAIN items |->
                          validateItemSchema(beforeItems.items[i], schema, "Update")]
        operations == [i \in DOMAIN items |->
                          [kind |-> "updateOne",
                           criteria |-> bulkUpdateFilter(c, finalItems[i].item._id, pre.verdict),
                           item |-> finalItems[i].item]]
        result == bulkWrite(store, operations)
        calls == {"listCollections"}
    IN  /\ pc[c] = Idle
        /\ IF pre.error # "none"
           THEN /\ last' = Thrown("bulkUpdate", c, options, pre.verdict, pre.error, calls)
                /\ store' = store
           ELSE IF beforeItems.error # "none"
           THEN /\ last' = WithHooks(Finished("bulkUpdate", c, options, pre.verdict,
                                              beforeItems.error, calls, {}, {}, {}),
                                     beforeItems.invoked)
                /\ store' = store
           ELSE IF FirstError(finalItems) # "none"
           THEN /\ last' = WithHooks(Finished("bulkUpdate", c, options, pre.verdict,
                                              FirstError(finalItems), calls, {}, {}, {}),
                                     beforeItems.invoked)
                /\ store' = store
           ELSE /\ last' = WithHooks(Finished("bulkUpdate", c, options, pre.verdict,
                                              result.error, calls \cup {"bulkWrite"},
                                              {operations[i].criteria.owner : i \in DOMAIN items},
                                              result.owners, result.created),
                                     beforeItems.invoked)
                /\ store' = result.store
        /\ UNCHANGED <<config, pc, eval>>

----------------------------------------------------------------------------
(* The Filter Builder and query.find / query.count *)

NoPredicate == [op |-> NoKey, value |-> NoKey]

\* new DataFilter(): the empty filter object, over the properties _owner and f.
EmptyFilter == [_owner |-> NoPredicate, f |-> NoPredicate]

\* DataFilter.eq(property, value): this.#_queryObject[property] = { $eq: value }
eq(filter, property, value) ==
    [filter EXCEPT ![property] = [op |-> "$eq", value |-> value]]

\* DataFilter.ne(property, value): this.#_queryObject[property] = { $ne: value }
ne(filter, property, value) ==
    [filter EXCEPT ![property] = [op |-> "$ne", value |-> value]]

\* The most calls made on one Filter Builder.
MaxFilterCalls == 2

FilterArgs == {"_owner"} \X {"u1", "u2"}

RECURSIVE FiltersAfter(_)
FiltersAfter(n) ==
    IF n = 0 THEN {EmptyFilter}
    ELSE LET prev == FiltersAfter(n - 1)
         IN  prev \cup {eq(g, a[1], a[2]) : g \in prev, a \in FilterArgs}
                  \cup {ne(g, a[1], a[2]) : g \in prev, a \in FilterArgs}

Filters == FiltersAfter(MaxFilterCalls)

\* Whether the store matches a value against one predicate of a filter.
Holds(value, predicate) ==
    CASE predicate.op = NoKey -> TRUE
      [] predicate.op = "$eq" -> value = predicate.value
      [] predicate.op = "$ne" -> value # predicate.value

\* collection.find(filter) / countDocuments(filter): the matching documents.
find(st, filter) ==
    {id \in DOMAIN st : Holds(st[id].owner, filter._owner) /\ Holds(st[id].f, filter.f)}

\* DataQuery.find / count: suppressAuth ? filter : permission === 'Owned-Items'
\* ? { _owner: context.userId, ...filter } : filter. The keys of the spread
\* filter replace the _owner written before them.
queryFilter(c, filter, options, permission) ==
    IF options.suppressAuth = TRUE THEN filter
    ELSE IF permission = "Owned-Items"
         THEN [filter EXCEPT !._owner = IF filter._owner.op # NoKey THEN filter._owner
                                        ELSE [op |-> "$eq", value |-> user[c].id]]
         ELSE filter

\* DataQuery.find with the default skip and limit
Find(c, filter, options) ==
    LET permission == DataQuery_prepareEvent(c, options)
        found == find(store, queryFilter(c, filter, options, permission))
    IN  /\ pc[c] = Idle
        /\ last' = IF permission = "Denied"
                   THEN Finished("find", c, options, permission, "denied",
                                 {"listCollections"}, {}, {}, {})
                   ELSE Finished("find", c, options, permission, "none",
                                 {"listCollections", "find", "countDocuments"}, {},
                                 OwnersOf(store, found), {})
        /\ UNCHANGED <<config, store, pc, eval>>

\* DataQuery.count
Count(c, filter, options) ==
    LET permission == DataQuery_prepareEvent(c, options)
        found == find(store, queryFilter(c, filter, options, permission))
    IN  /\ pc[c] = Idle
        /\ last' = IF permission = "Denied"
                   THEN Finished("count", c, options, permission, "denied",
                                 {"listCollections"}, {}, {}, {})
                   ELSE Finished("count", c, options, permission, "none",
                                 {"listCollections", "countDocuments"}, {},
                                 OwnersOf(store, found), {})
        /\ UNCHANGED <<config, store, pc, eval>>

----------------------------------------------------------------------------
(* query.find with skip and limit, and the QueryResult *)

\* Math.ceil(totalCount / limit) of a count and a limit of at least 1.
MathCeil_Floor(totalCount, limit) == totalCount \div limit

MathCeil(totalCount, limit) ==
    IF totalCount % limit = 0 THEN totalCount \div limit ELSE (totalCount \div limit) + 1

\* null, kept apart from every list of ids.
Null == <<"null">>

\* The order in which the store returns documents.
IdOrder == <<"i1", "i2">>

\* cursor.toArray() of collection.find(filter, { limit, skip }).
toArray(st, filter, skip, limit) ==
    LET matching == SelectSeq(IdOrder, LAMBDA id : id \in find(st, filter))
        to == IF skip + limit < Len(matching) THEN skip + limit ELSE Len(matching)
    IN  SubSeq(matching, skip + 1, to)

\* new QueryResult({ totalCount, pages, pageSize, items, cursor }); the
\* current page starts at 1.
QueryResult(totalCount, pages, pageSize, items, cursor) ==
    [totalCount |-> totalCount, items |-> items, pageItems |-> items,
     length |-> Len(items), totalPages |-> pages, cursor |-> cursor,
     pageSize |-> pageSize, currentPage |-> 1]

\* DataQuery.#_config.filter: null, or the object of the Filter Builder that
\* was handed to filter(); handed keeps what that object held at the hand-off.
NoQueryConfig == [filter |-> "null", handed |-> << >>]

\* The caller holds no QueryResult.
NoQueryResult ==
    [QueryResult(0, 0, 0, << >>, [filter |-> EmptyFilter, skip |-> 0, limit |-> 0])
       EXCEPT !.currentPage = 0]

\* QueryResult.hasNext
hasNext(r) == r.currentPage < r.totalPages

\* The limits DataQuery.limit accepts are the numbers from 1 to 2000; 100 is
\* the default.
MaxLimit == 3

Limits == 1..MaxLimit \cup {100, 2000}

\* DataQuery.find of a query built with filter(), skip() and limit().
QueryFind(c, filter, skip, limit, options) ==
    LET permission == DataQuery_prepareEvent(c, options)
        used == queryFilter(c, filter, options, permission)
        found == find(store, used)
        totalCount == Cardinality(found)
        items == toArray(store, used, skip, limit)
        totalPages == MathCeil(totalCount, limit)
    IN  /\ pc[c] = Idle
        /\ IF permission = "Denied"
           THEN /\ last' = Finished("find", c, options, permission, "denied",
                                    {"listCollections"}, {}, {}, {})
                /\ queryResult' = queryResult
           ELSE /\ last' = Finished("find", c, options, permission, "none",
                                    {"listCollections", "find", "countDocuments"}, {},
                                    OwnersOf(store, found), {})
                /\ queryResult' = QueryResult(totalCount, totalPages, limit, items,
                                         [filter |-> used, skip |-> skip, limit |-> limit])
        /\ UNCHANGED <<authorization, user, permissions, schema, hooks, clock, stages,
                       database, store, pc, eval, queryObject, queryConfig>>

\* What this._cursor.next() does on the cursor that toArray() has exhausted:
\* it resolves to null or it rejects with a cursor error.
CursorOutcomes == {"null", "rejects"}

\* QueryResult.next. A rejection is recorded as the error of the call.
QueryResultNext(outcome) ==
    /\ queryResult # NoQueryResult
    /\ IF ~hasNext(queryResult)
       THEN \* return []
            /\ last' = [NoOperation EXCEPT !.op = "next"]
            /\ queryResult' = queryResult
       ELSE IF outcome = "rejects"
       THEN /\ last' = [NoOperation EXCEPT !.op = "next", !.calls = {"cursor.next"},
                                           !.error = "storage"]
            /\ queryResult' = queryResult
       ELSE \* this._results.pageItems = items; items.length throws a TypeError
            /\ last' = [NoOperation EXCEPT !.op = "next", !.calls = {"cursor.next"},
                                           !.error = "type"]
            /\ queryResult' = [queryResult EXCEPT !.pageItems = Null]
    /\ UNCHANGED <<authorization, user, permissions, schema, hooks, clock, stages,
                   database, store, pc, eval, queryObject, queryConfig>>

\* A caller's loop over the pages of the QueryResult it holds:
\*     while (result.hasNext()) { try { await result.next() } catch { } }
\* The loop is entered, hasNext() is evaluated, and next() is called on a
\* cursor whose calls succeed.
HasNextPoint == [op |-> "hasNext"]
NextPoint == [op |-> "next"]

Paging(c) ==
    /\ pc[c] = Idle
    /\ queryResult # NoQueryResult
    /\ pc' = [pc EXCEPT ![c] = HasNextPoint]
    /\ UNCHANGED <<config, store, last, eval>>

PagingHasNext(c) ==
    /\ pc[c] = HasNextPoint
    /\ pc' = [pc EXCEPT ![c] = IF hasNext(queryResult) THEN NextPoint ELSE Idle]
    /\ UNCHANGED <<config, store, last, eval>>

\* QueryResult.next of the loop: hasNext() is true at this point unless the
\* caller's result has changed, which no step does while the loop runs.
PagingNext(c) ==
    /\ pc[c] = NextPoint
    /\ pc' = [pc EXCEPT ![c] = HasNextPoint]
    /\ IF ~hasNext(queryResult)
       THEN /\ last' = [NoOperation EXCEPT !.op = "next"]
            /\ queryResult' = queryResult
       ELSE \* this._results.pageItems = items; items.length throws a TypeError
            /\ last' = [NoOperation EXCEPT !.op = "next", !.calls = {"cursor.next"},
                                           !.error = "type"]
            /\ queryResult' = [queryResult EXCEPT !.pageItems = Null]
    /\ UNCHANGED <<authorization, user, permissions, schema, hooks, clock, stages,
                   database, store, eval, queryObject, queryConfig>>

----------------------------------------------------------------------------
(* The Filter Builder: the methods of DataFilter on #_queryObject *)

\* The values callers pass to the builder: the strings "a" < "b", the numbers
\* 1 < 7, the dates 1 < 2, true, an array, a plain object and undefined.
typeofOrDate(value) ==
    CASE value \in {"a", "b"} -> "string"
      [] value \in {"n1", "n7"} -> "number"
      [] value \in {"d1", "d2"} -> "date"
      [] value = "true" -> "boolean"
      [] value = Absent -> "undefined"
      [] OTHER -> "object"

\* The position of a value among the values of its type, as > compares them.
Rank(value) ==
    CASE value \in {"a", "n1", "d1"} -> 1
      [] value \in {"b", "d2"} -> 2
      [] value = "n7" -> 7
      [] OTHER -> 0

isArray(value) == value = "[a]"

\* checkProperty: the property is a string, and not the empty one.
checkProperty(prop) ==
    IF prop = Absent THEN "property" ELSE IF prop = "" THEN "property" ELSE "none"

\* A builder call that threw with the filter object as it was at the throw,
\* and one that returned this.
Threw(object, error) == [error |-> error, queryObject |-> object]

Returned(object) == [error |-> "none", queryObject |-> object]

\* this.#_queryObject[property] = value
setProperty(object, property, value) ==
    [k \in DOMAIN object \cup {property} |-> IF k = property THEN value ELSE object[k]]

between_AssignedFirst(object, property, start, end) ==
    IF checkProperty(property) # "none" THEN Threw(object, "property")
    ELSE IF typeofOrDate(start) \notin {"string", "number", "date"} THEN Threw(object, "type")
    ELSE IF typeofOrDate(start) # typeofOrDate(end) THEN Threw(object, "type")
    ELSE LET assigned == setProperty(object, property,
                                     [op |-> "$gte$lte", args |-> <<start, end>>])
         IN  IF Rank(start) > Rank(end) THEN Threw(assigned, "range")
             ELSE Returned(assigned)

between(object, property, start, end) ==
    IF checkProperty(property) # "none" THEN Threw(object, "property")
    ELSE IF typeofOrDate(start) \notin {"string", "number", "date"} THEN Threw(object, "type")
    ELSE IF typeofOrDate(start) # typeofOrDate(end) THEN Threw(object, "type")
    ELSE IF Rank(start) > Rank(end) THEN Threw(object, "range")
    ELSE Returned(setProperty(object, property,
                              [op |-> "$gte$lte", args |-> <<start, end>>]))

\* hasAll, hasSome, in and nin, which differ in the operator they write:
\* $all, $in, $in and $nin.
hasAll(object, operator, property, value) ==
    IF checkProperty(property) # "none" THEN Threw(object, "property")
    ELSE IF ~isArray(value) THEN Threw(object, "array")
    ELSE Returned(setProperty(object, property, [op |-> operator, args |-> <<value>>]))

\* gte, gt, lt and lte, which check the property only; startsWith, endsWith
\* and contains, which build a RegExp of a string value.
gte(object, operator, property, value) ==
    IF checkProperty(property) # "none" THEN Threw(object, "property")
    ELSE Returned(setProperty(object, property, [op |-> operator, args |-> <<value>>]))

\* helpers.isRealObject of the options of eq and ne: undefined, a string, or
\* an object whose caseSensitive is missing, a boolean or a string.
isRealObject(options) == options.kind = "object"

\* eq/ne that accept caseSensitive: true next to a value that is no string.
equality_SensitiveAnyValue(object, operator, property, value, options) ==
    LET valueIsString == typeofOrDate(value) = "string"
        caseSensitive == IF isRealObject(options) /\ options.caseSensitive # Absent
                         THEN options.caseSensitive ELSE "true"
    IN  IF checkProperty(property) # "none" THEN Threw(object, "property")
        ELSE IF options.kind # "undefined" /\ ~isRealObject(options)
        THEN Threw(object, "options")
        ELSE IF isRealObject(options) /\ options.caseSensitive \notin {Absent, "true"}
                /\ ~valueIsString
        THEN Threw(object, "syntax")
        ELSE IF isRealObject(options) /\ options.caseSensitive \notin {Absent, "true", "false"}
        THEN Threw(object, "options")
        ELSE IF valueIsString /\ caseSensitive = "false"
        THEN Returned(setProperty(object, property,
                                  [op |-> operator, args |-> <<"RegExp", value, "i">>]))
        ELSE Returned(setProperty(object, property, [op |-> operator, args |-> <<value>>]))


\* eq and ne with their options; operator is "$eq" or "$ne".
equality(object, operator, property, value, options) ==
    LET valueIsString == typeofOrDate(value) = "string"
        caseSensitive == IF isRealObject(options) /\ options.caseSensitive # Absent
                         THEN options.caseSensitive ELSE "true"
    IN  IF checkProperty(property) # "none" THEN Threw(object, "property")
        ELSE IF options.kind # "undefined" /\ ~isRealObject(options)
        THEN Threw(object, "options")
        ELSE IF isRealObject(options) /\ options.caseSensitive # Absent /\ ~valueIsString
        THEN Threw(object, "syntax")
        ELSE IF isRealObject(options) /\ options.caseSensitive \notin {Absent, "true", "false"}
        THEN Threw(object, "options")
        ELSE IF valueIsString /\ caseSensitive = "false"
        THEN Returned(setProperty(object, property,
                                  [op |-> operator, args |-> <<"RegExp", value, "i">>]))
        ELSE Returned(setProperty(object, property, [op |-> operator, args |-> <<value>>]))

exists(object, property, value) ==
    IF checkProperty(property) # "none" THEN Threw(object, "property")
    ELSE IF value = Absent THEN Threw(object, "missing")
    ELSE IF typeofOrDate(value) # "boolean" THEN Threw(object, "type")
    ELSE Returned(setProperty(object, property, [op |-> "$exists", args |-> <<value>>]))

isSupportedType(type) ==
    type \in {"number", "string", "bool", "object", "array", "date", "javascript", "null"}

\* The loop of type() over an array: the types kept so far, or the throw at
\* the first unsupported one.
RECURSIVE typeExpressions(_, _)
typeExpressions(value, expressions) ==
    IF value = << >> THEN [error |-> "none", expressions |-> expressions]
    ELSE IF \E i \in DOMAIN expressions : expressions[i] = Head(value)
    THEN typeExpressions(Tail(value), expressions)
    ELSE IF isSupportedType(Head(value))
    THEN typeExpressions(Tail(value), Append(expressions, Head(value)))
    ELSE [error |-> "type", expressions |-> expressions]

\* type(), which does not check the property; value is an array of types or
\* one type (held as the only member of types).
type(object, property, value) ==
    IF value.isArray
    THEN LET loop == typeExpressions(value.types, << >>)
         IN  IF loop.error # "none" THEN Threw(object, loop.error)
             ELSE Returned(setProperty(object, property,
                                       [op |-> "$type[]", args |-> loop.expressions]))
    ELSE IF ~isSupportedType(value.types[1]) THEN Threw(object, "type")
    ELSE Returned(setProperty(object, property, [op |-> "$type", args |-> value.types]))

\* The expressions of a filter object: one single-property object per entry.
getFilterExpressions(filter) == {[prop |-> k, value |-> filter[k]] : k \in DOMAIN filter}

\* and, nor and or, which differ in the key they write. The argument is
\* undefined, a plain object, a DataFilter (its only item) or an array of
\* items, each an instance of DataFilter or not.
and(object, key, filter) ==
    IF filter.kind = "undefined" THEN Threw(object, "missing")
    ELSE IF filter.kind = "array" /\ Len(filter.items) > 0
    THEN IF \E i \in DOMAIN filter.items : ~filter.items[i].instance
         THEN Threw(object, "items")
         ELSE LET filters == {i \in DOMAIN filter.items :
                                  DOMAIN filter.items[i]._filter # {}}
              IN  IF filters # {}
                  THEN Returned(setProperty(object, key,
                           UNION {getFilterExpressions(filter.items[i]._filter) :
                                      i \in filters}))
                  ELSE Returned(object)
    ELSE IF filter.kind # "filter" THEN Threw(object, "filter")
    ELSE IF DOMAIN filter.items[1]._filter # {}
    THEN Returned(setProperty(object, key, getFilterExpressions(filter.items[1]._filter)))
    ELSE Returned(object)

not(object, filter) ==
    IF filter.kind = "undefined" THEN Threw(object, "missing")
    ELSE IF filter.kind # "filter" THEN Threw(object, "filter")
    ELSE IF DOMAIN filter.items[1]._filter # {}
    THEN Returned(setProperty(object, "$not", getFilterExpressions(filter.items[1]._filter)))
    ELSE Returned(object)

\* The arguments callers pass to the builder.
FilterProperties == {"f", "", Absent}

RangeValues == {"a", "b", "n7", "d1", "true", Absent}

ArrayValues == {"[a]", "a", "{}", Absent}

EqualityOptions ==
    {[kind |-> "undefined", caseSensitive |-> Absent],
     [kind |-> "string", caseSensitive |-> Absent],
     [kind |-> "object", caseSensitive |-> Absent],
     [kind |-> "object", caseSensitive |-> "true"],
     [kind |-> "object", caseSensitive |-> "false"],
     [kind |-> "object", caseSensitive |-> "a"]}

TypeValues ==
    {[isArray |-> FALSE, types |-> <<"string">>],
     [isArray |-> FALSE, types |-> <<"integer">>],
     [isArray |-> TRUE, types |-> <<"string", "number", "string">>],
     [isArray |-> TRUE, types |-> <<"string", "integer">>]}

\* Another builder, empty or after eq("f", "a"), and what is no builder.
SubFilter == [instance |-> TRUE, _filter |-> setProperty(<< >>, "f", [op |-> "$eq", args |-> <<"a">>])]

EmptySubFilter == [instance |-> TRUE, _filter |-> << >>]

NoSubFilter == [instance |-> FALSE, _filter |-> << >>]

SubFilters ==
    {[kind |-> "undefined", items |-> << >>],
     [kind |-> "object", items |-> << >>],
     [kind |-> "filter", items |-> <<SubFilter>>],
     [kind |-> "filter", items |-> <<EmptySubFilter>>],
     [kind |-> "array", items |-> << >>],
     [kind |-> "array", items |-> <<SubFilter, EmptySubFilter>>],
     [kind |-> "array", items |-> <<EmptySubFilter>>],
     [kind |-> "array", items |-> <<SubFilter, NoSubFilter>>]}

\* One call of a builder method by the caller: the filter object is what the
\* method left, and the call returned the builder or threw.
Refine(method, call) ==
    /\ queryObject' = call.queryObject
    /\ last' = [NoOperation EXCEPT !.op = method, !.error = call.error]
    /\ UNCHANGED <<authorization, user, permissions, schema, hooks, clock, stages,
                   database, store, pc, eval, queryResult, queryConfig>>

\* DataQuery.filter(filter): this.#_config.filter = filter._filter, the
\* builder's own #_queryObject and no copy of it.
QueryFilter ==
    /\ queryConfig' = [filter |-> "_filter", handed |-> queryObject]
    /\ UNCHANGED <<authorization, user, permissions, schema, hooks, clock, stages, database,
                   store, pc, last, eval, queryResult, queryObject>>

\* DataQuery.find / count: if (!this.#_config.filter) { this.#_config.filter =
\* {} }; the object the query holds is the builder's, as it is now.
configFilter(query, object) ==
    IF query.filter = "null" THEN << >> ELSE object

\* The filter object as the store reads it, for the predicates $eq and $ne on
\* the properties _owner and f.
StoreFilter(object) ==
    [p \in {"_owner", "f"} |->
        IF p \in DOMAIN object /\ object[p].op \in {"$eq", "$ne"} /\ Len(object[p].args) = 1
        THEN [op |-> object[p].op, value |-> object[p].args[1]]
        ELSE NoPredicate]

----------------------------------------------------------------------------
(* aggregate.execute *)

executeStages_Appended(c, pipeline, options, permission) ==
    IF options.suppressAuth # TRUE /\ permission = "Owned-Items"
    THEN Append(pipeline, [op |-> "$match", match |-> user[c].id])
    ELSE pipeline

\* DataAggregate.execute: if (options?.suppressAuth !== true && permission ===
\* 'Owned-Items') { this._stages.unshift({ $match: { _owner: context.userId } }) }
executeStages(c, pipeline, options, permission) ==
    IF options.suppressAuth # TRUE /\ permission = "Owned-Items"
    THEN <<[op |-> "$match", match |-> user[c].id]>> \o pipeline
    ELSE pipeline

\* collection.aggregate(pipeline): the documents that pass every $match stage.
aggregate(st, pipeline) ==
    {id \in DOMAIN st :
        \A i \in DOMAIN pipeline :
           pipeline[i].op = "$match" => st[id].owner = pipeline[i].match}

\* DataAggregate.execute of an aggregate without stages of its own.
Execute(c, options) ==
    LET permission == DataAggregate_prepareEvent(c, options)
        pipeline == executeStages(c, <<>>, options, permission)
        found == aggregate(store, pipeline)
    IN  /\ pc[c] = Idle
        /\ last' = IF permission = "Denied"
                   THEN Finished("aggregate", c, options, permission, "denied",
                                 {"listCollections"}, {}, {}, {})
                   ELSE Finished("aggregate", c, options, permission, "none",
                                 {"listCollections", "aggregate"},
                                 IF pipeline = <<>> THEN {NoKey}
                                 ELSE {pipeline[i].match : i \in DOMAIN pipeline},
                                 OwnersOf(store, found), {})
        /\ UNCHANGED <<config, store, pc, eval>>

\* The longest pipeline an aggregate is given.
MaxStages == 3

\* client.aggregate(collectionName): a new aggregate, without stages (a step
\* only when the caller's aggregate has stages).
Aggregate(c, collectionName) ==
    /\ collectionName \in DefinedCollections
    /\ stages # << >>
    /\ stages' = << >>
    /\ UNCHANGED <<authorization, user, permissions, schema, hooks, clock, store, pc, last,
                   eval, database, queryResult, queryObject, queryConfig>>

\* The methods of the builder (filter, skip, limit, ascending, ..., customStage)
\* push their stage: filter(client.filter().eq('_owner', 'u2')) and
\* ascending('f').
BuilderStages ==
    {[op |-> "$match", match |-> "u2"], [op |-> "$sort", match |-> NoKey]}

\* this._stages.push(stage)
Stage(stage) ==
    /\ Len(stages) < MaxStages
    /\ stages' = Append(stages, stage)
    /\ UNCHANGED <<authorization, user, permissions, schema, hooks, clock, store, pc, last,
                   eval, database, queryResult, queryObject, queryConfig>>

\* DataAggregate.execute of the aggregate the caller built. rejected: the
\* store fails the pipeline, which runs when result.toArray() is called; the
\* promise of toArray() is returned without being awaited.
AggregateExecute(c, options, rejected) ==
    LET permission == DataAggregate_prepareEvent(c, options)
        pipeline == executeStages(c, stages, options, permission)
        found == aggregate(store, pipeline)
        owners == {pipeline[i].match : i \in DOMAIN pipeline} \ {NoKey}
    IN  /\ pc[c] = Idle
        /\ Len(pipeline) <= MaxStages
        /\ IF permission = "Denied"
           THEN /\ last' = Finished("aggregate", c, options, permission, "denied",
                                    {"listCollections"}, {}, {}, {})
                /\ stages' = stages
           ELSE /\ last' = Uncaught(Finished("aggregate", c, options, permission, "none",
                                             {"listCollections", "aggregate"},
                                             IF owners = {} THEN {NoKey} ELSE owners,
                                             IF rejected THEN {} ELSE OwnersOf(store, found),
                                             {}),
                                    IF rejected THEN "storage" ELSE "none")
                /\ stages' = pipeline
        /\ UNCHANGED <<authorization, user, permissions, schema, hooks, clock, store, pc, eval,
                       database, queryResult, queryObject, queryConfig>>

----------------------------------------------------------------------------
(* The database selector and the steps of a getItem call between its awaits *)

\* The databases defined with defineDatabase; each defines the collection.
Databases == {"Main", "Archive", "Audit"}

\* options.defaultDatabase of the handles.
DefaultDatabase == "Main"

\* The names callers pass to db(): of a defined database in another case, of
\* no database, or none.
DatabaseNames == {"main", "ARCHIVE", "Audit", "Nowhere", Absent}

\* databaseManager.getDatabase(name, options): the name of the definition
\* found, Absent for null.
getDatabase(name, ignoreCase) ==
    LET found == {i \in Databases : IF ignoreCase THEN toLowerCase(i) = toLowerCase(name)
                                    ELSE i = name}
    IN  IF found = {} THEN Absent ELSE CHOOSE i \in found : TRUE

\* NasriyaDataClient.db(name): selects the default database for no name,
\* throws for a name that is not defined, else selects database.name.
Db(c, name) ==
    LET found == getDatabase(name, TRUE)
        selected == IF name = Absent THEN database[c].default
                    ELSE IF found = Absent THEN database[c].selected
                    ELSE found
    IN  /\ selected # database[c].selected
        /\ database' = [database EXCEPT ![c].selected = selected]
        /\ UNCHANGED <<authorization, user, permissions, schema, hooks, clock, stages,
                       store, pc, last, eval, queryResult, queryObject, queryConfig>>

\* getItem up to its first await: checkArgs calls
\* db(this.#_config.database.selected).listCollections().
GetItemCall(c, collectionName, itemId) ==
    /\ pc[c] = Idle
    /\ collectionName \in DefinedCollections
    /\ pc' = [pc EXCEPT ![c] = [op |-> "getItem", at |-> "prepareEvent", itemId |-> itemId,
                                invoked |-> database[c].selected,
                                checked |-> database[c].selected,
                                authorized |-> Absent]]
    /\ UNCHANGED <<config, store, last, eval>>

\* getItem after checkArgs: prepareEvent takes the collection definition of
\* databaseManager.getDatabase(this.#_config.database.selected), then the
\* beforeGetItem runner is awaited.
GetItemPrepare(c) ==
    /\ pc[c].op = "getItem" /\ pc[c].at = "prepareEvent"
    /\ pc' = [pc EXCEPT ![c].at = "findOne",
                        ![c].authorized = getDatabase(database[c].selected, FALSE)]
    /\ UNCHANGED <<config, store, last, eval>>

\* getItem after the before hook: db(this.#_config.database.selected)
\* .collection(collectionName).findOne(criteria), and the call ends.
GetItemFind(c) ==
    /\ pc[c].op = "getItem" /\ pc[c].at = "findOne"
    /\ pc' = [pc EXCEPT ![c] = Idle]
    /\ UNCHANGED <<config, store, last, eval>>

----------------------------------------------------------------------------
(* save *)

\* #_helpers.checkExistance: false without a store call for an item that has
\* no _id, else whether findOne({ _id }) finds a document.
checkExistance(st, itemId) == itemId # NoKey /\ itemId \in DOMAIN st

\* save() up to the answer of the existence probe.
SaveProbe(c, collectionName, item, options) ==
    LET pre == Prechecks(c, "modify", collectionName, "Object", item, options)
    IN  /\ pc[c] = Idle
        /\ IF pre.error # "none"
           THEN /\ last' = Thrown("save", c, options, pre.verdict, pre.error,
                                  {"listCollections"})
                /\ pc' = pc
           ELSE /\ pc' = [pc EXCEPT ![c] = [op |-> "save", item |-> item,
                                            options |-> options,
                                            permission |-> pre.verdict,
                                            exist |-> checkExistance(store, item._id)]]
                /\ last' = Started(c)
        /\ UNCHANGED <<config, store, eval>>

saveWritePermission_Unchecked(c, options, exist) ==
    IF options.suppressAuth = TRUE THEN "Allowed"
    ELSE IF exist THEN Absent
    ELSE "Allowed"

\* save: suppressAuth ? 'Allowed' : exist ? null : authUser(permissions?.write)
saveWritePermission(c, options, exist) ==
    IF options.suppressAuth = TRUE THEN "Allowed"
    ELSE IF exist THEN Absent
    ELSE authUser(authorization[c], user[c], permissions["write"])

\* save: criteria = { _id }, plus _owner when the permission of the path taken
\* (modify for an update, write for an insert) is Owned-Items.
saveCriteria(c, itemId, exist, permission, writePermission) ==
    [ids |-> {itemId},
     owner |-> IF exist
               THEN IF permission = "Owned-Items" THEN user[c].id ELSE NoKey
               ELSE IF writePermission = "Owned-Items" THEN user[c].id ELSE NoKey]

\* save() from the answer of the existence probe to its end.
SaveWrite(c, uuid) ==
    LET call == pc[c]
        exist == call.exist
        writePermission == saveWritePermission(c, call.options, exist)
        beforeItem == IF exist THEN validateUpdateItem(call.item)
                      ELSE validateInsertItem(call.item, user[c].id, authorization[c], uuid)
        validated == validateItemSchema(beforeItem.item, schema,
                                        IF exist THEN "Update" ELSE "Insert")
        criteria == saveCriteria(c, beforeItem.item._id, exist, call.permission,
                                 writePermission)
        result == updateOne(store, criteria, validated.item, ~exist)
        calls == IF call.item._id # NoKey THEN {"listCollections", "findOne"}
                 ELSE {"listCollections"}
    IN  /\ pc[c] # Idle /\ pc[c].op = "save"
        /\ uuid = NoKey <=> (exist \/ call.item._id # NoKey)
        /\ uuid # NoKey => uuid \notin DOMAIN store
        /\ IF writePermission = "Denied"
           THEN /\ last' = Finished("save", c, call.options, call.permission, "denied",
                                    calls, {}, {}, {})
                /\ store' = store
           ELSE IF beforeItem.error # "none"
           THEN /\ last' = Finished("save", c, call.options, call.permission,
                                    beforeItem.error, calls, {}, {}, {})
                /\ store' = store
           ELSE IF validated.error # "none"
           THEN /\ last' = Finished("save", c, call.options, call.permission,
                                    validated.error, calls, {}, {}, {})
                /\ store' = store
           ELSE /\ last' = Finished("save", c, call.options, call.permission,
                                    result.error, calls \cup {"updateOne"},
                                    {criteria.owner}, result.owners, result.created)
                /\ store' = result.store
        /\ pc' = [pc EXCEPT ![c] = Idle]
        /\ UNCHANGED <<config, eval>>

----------------------------------------------------------------------------
(* bulkSave *)

\* The subsequence of the items that have no _id, in order.
RECURSIVE WithoutId(_)
WithoutId(items) ==
    IF items = <<>> THEN <<>>
    ELSE IF Head(items)._id = NoKey THEN <<Head(items)>> \o WithoutId(Tail(items))
    ELSE WithoutId(Tail(items))

\* bulkSave() up to the start of the existence probes: checkItemsExistance
\* puts the items without _id in toInsert and starts one probe for each other.
BulkSaveProbes(c, collectionName, items, options) ==
    LET pre == Prechecks(c, "modify", collectionName, "Array", items, options)
    IN  /\ pc[c] = Idle
        /\ IF pre.error # "none"
           THEN /\ last' = Thrown("bulkSave", c, options, pre.verdict, pre.error,
                                  {"listCollections"})
                /\ pc' = pc
           ELSE /\ pc' = [pc EXCEPT ![c] =
                            [op |-> "bulkSave", items |-> items, options |-> options,
                             permission |-> pre.verdict,
                             toCheck |-> {i \in DOMAIN items : items[i]._id # NoKey},
                             toUpdate |-> <<>>, toInsert |-> WithoutId(items)]]
                /\ last' = Started(c)
        /\ UNCHANGED <<config, store, eval>>

\* The answer of one existence probe: the item goes to toUpdate or toInsert.
BulkSaveProbe(c, i) ==
    LET call == pc[c]
        item == call.items[i]
    IN  /\ pc[c].op = "bulkSave"
        /\ i \in call.toCheck
        /\ pc' = [pc EXCEPT ![c] =
                    [call EXCEPT !.toCheck = @ \ {i},
                                 !.toUpdate = IF checkExistance(store, item._id)
                                              THEN Append(@, item) ELSE @,
                                 !.toInsert = IF checkExistance(store, item._id)
                                              THEN @ ELSE Append(@, item)]]
        /\ UNCHANGED <<config, store, last, eval>>

\* An existence probe that rejects: .catch(err => reject(err)) puts the item
\* in neither array, and Promise.allSettled only logs the rejection.
BulkSaveProbeFailure(c, i) ==
    LET call == pc[c]
    IN  /\ pc[c].op = "bulkSave"
        /\ i \in call.toCheck
        /\ pc' = [pc EXCEPT ![c] = [call EXCEPT !.toCheck = @ \ {i}]]
        /\ UNCHANGED <<config, store, last, eval>>

\* bulkSave: suppressAuth ? 'Allowed' : toInsert.length > 0 ? authUser(permissions?.write) : null
bulkSaveWritePermission(c, options, toInsert) ==
    IF options.suppressAuth = TRUE THEN "Allowed"
    ELSE IF Len(toInsert) > 0
         THEN authUser(authorization[c], user[c], permissions["write"])
         ELSE Absent

\* bulkSave: filter: { _id: item._id, ...(permission === 'Owned-Items' ? { _owner } : {}) }
bulkSaveFilter(c, itemId, permission) ==
    [ids |-> {itemId},
     owner |-> IF permission = "Owned-Items" THEN user[c].id ELSE NoKey]

\* The BulkSaveResult bulkSave returns: insertedCount is result.upsertedCount
\* and updatedCount is result.modifiedCount.
bulkSaveResult(updateOps, insertOps, result) ==
    [operation |-> IF Len(updateOps) > 0 /\ Len(insertOps) > 0 THEN "Mixed"
                   ELSE IF Len(updateOps) > 0 THEN "Update"
                   ELSE IF Len(insertOps) > 0 THEN "Insert"
                   ELSE "Mixed",
     insertedCount |-> Cardinality(result.upserted),
     updatedCount |-> Cardinality(result.modified)]

\* bulkSave() from the settling of all probes to its end.
BulkSaveWrite(c, uuids) ==
    LET call == pc[c]
        writePermission == bulkSaveWritePermission(c, call.options, call.toInsert)
        updateItems == [i \in DOMAIN call.toUpdate |-> validateUpdateItem(call.toUpdate[i])]
        insertItems == [i \in DOMAIN call.toInsert |->
                            validateInsertItem(call.toInsert[i], user[c].id,
                                               authorization[c], uuids[i])]
        checkedUpdate == [i \in DOMAIN updateItems |->
                            validateItemSchema(updateItems[i].item, schema, "Update")]
        checkedInsert == [i \in DOMAIN insertItems |->
                            validateItemSchema(insertItems[i].item, schema, "Insert")]
        updateOps == [i \in DOMAIN checkedUpdate |->
                        [kind |-> "updateOne",
                         criteria |-> bulkSaveFilter(c, checkedUpdate[i].item._id,
                                                     call.permission),
                         item |-> checkedUpdate[i].item]]
        insertOps == [i \in DOMAIN checkedInsert |->
                        [kind |-> "insertOne",
                         criteria |-> [ids |-> {}, owner |-> NoKey],
                         item |-> checkedInsert[i].item]]
        result == bulkWrite(store, updateOps \o insertOps)
        calls == IF \E i \in DOMAIN call.items : call.items[i]._id # NoKey
                 THEN {"listCollections", "findOne"} ELSE {"listCollections"}
        error == IF writePermission = "Denied" THEN "denied"
                 ELSE IF FirstError(updateItems) # "none" THEN FirstError(updateItems)
                 ELSE IF FirstError(insertItems) # "none" THEN FirstError(insertItems)
                 ELSE IF FirstError(checkedUpdate) # "none" THEN FirstError(checkedUpdate)
                 ELSE FirstError(checkedInsert)
    IN  /\ pc[c].op = "bulkSave"
        /\ call.toCheck = {}
        /\ uuids \in Uuids(call.toInsert)
        /\ IF error # "none"
           THEN /\ last' = Finished("bulkSave", c, call.options, call.permission, error,
                                    calls, {}, {}, {})
                /\ store' = store
           ELSE /\ last' = WithResult(
                               Finished("bulkSave", c, call.options, call.permission,
                                        result.error, calls \cup {"bulkWrite"},
                                        {updateOps[i].criteria.owner : i \in DOMAIN updateOps},
                                        result.owners, result.created),
                               bulkSaveResult(updateOps, insertOps, result))
                /\ store' = result.store
        /\ pc' = [pc EXCEPT ![c] = Idle]
        /\ UNCHANGED <<config, eval>>

----------------------------------------------------------------------------
(* The evaluators on their own *)

NoEvaluation ==
    [evaluator |-> "none", client |-> "c1", accessType |-> "read",
     suppressAuth |-> FALSE, verdict |-> Absent]

\* The verdict the client computes for an operation of the access type.
EvalClient(c, accessType, options) ==
    /\ eval' = [evaluator |-> "client", client |-> c, accessType |-> accessType,
                suppressAuth |-> options.suppressAuth,
                verdict |-> prepareEvent(c, accessType, options)]
    /\ UNCHANGED <<config, store, pc, last>>

\* The verdict a query computes in find() and count().
EvalQuery(c, options) ==
    /\ eval' = [evaluator |-> "query", client |-> c, accessType |-> "read",
                suppressAuth |-> options.suppressAuth,
                verdict |-> DataQuery_prepareEvent(c, options)]
    /\ UNCHANGED <<config, store, pc, last>>

\* The verdict an aggregate computes in execute().
EvalAggregate(c, options) ==
    /\ eval' = [evaluator |-> "aggregate", client |-> c, accessType |-> "read",
                suppressAuth |-> options.suppressAuth,
                verdict |-> DataAggregate_prepareEvent(c, options)]
    /\ UNCHANGED <<config, store, pc, last>>

----------------------------------------------------------------------------
(* Specifications *)

\* The second handle is a logged-in member.
OtherClient ==
    NewClient([authorization |-> "User",
               user |-> [loggedIn |-> TRUE, role |-> "Member", id |-> UserIdOf["c2"]]])

\* The permissions a collection definition can carry per access type; Absent
\* is a permission that is not set.
DeclaredPermissions == [AccessTypes -> Permission \cup {Absent}]

\* The definitions in which read and delete are declared like modify.
PermissionProfiles ==
    {p \in [AccessTypes -> {"Anyone", "MemberAuthor", "Admin"}] :
        p["read"] = p["modify"] /\ p["delete"] = p["modify"]}

InitClients ==
    \E opts \in ClientCreationOptions("c1") :
        /\ authorization = [c \in Clients |-> IF c = "c1" THEN NewClient(opts).authorization
                                             ELSE OtherClient.authorization]
        /\ user = [c \in Clients |-> IF c = "c1" THEN NewClient(opts).user
                                    ELSE OtherClient.user]

InitRun ==
    /\ clock = 0
    /\ store = << >>
    /\ pc = [c \in Clients |-> Idle]
    /\ last = NoOperation
    /\ eval = NoEvaluation
    /\ stages = << >>
    /\ database = [c \in Clients |-> [selected |-> DefaultDatabase,
                                      default |-> DefaultDatabase]]
    /\ queryResult = NoQueryResult
    /\ queryObject = << >>
    /\ queryConfig = NoQueryConfig

\* Every client configuration and permission profile, no schema.
Init ==
    /\ InitClients
    /\ authorization["c1"] = "User" /\ user["c1"].role = "Member"
    /\ permissions \in PermissionProfiles
    /\ schema = NoSchema
    /\ hooks = [NoHooks EXCEPT !.onFailure = "returns"]
    /\ InitRun

\* The identifiers crypto.randomUUID() can hand to the items of one call.
UuidLists == UNION {[1..n -> Ids \cup {NoKey}] : n \in 0..MaxBulk}

\* The arrays of items callers pass to the bulk operations.
PlainBatches == BulkItems(PlainItems)

\* The arguments of the calls on a collection: every id, item and array for
\* a collection of the database, and one of each, next to the empty id, for a
\* name the database does not define, where the call ends at the check of the
\* collection whatever the other arguments are.
IdsFor(n) == IF n \in DefinedCollections THEN ItemIds ELSE {"i1", ""}

IdSetsFor(n) == IF n \in DefinedCollections THEN SUBSET Ids ELSE {{"i1"}}

ItemsFor(n) ==
    IF n \in DefinedCollections THEN PlainItems ELSE {i \in PlainItems : i._id = "i1"}

BatchesFor(n) ==
    IF n \in DefinedCollections THEN PlainBatches
    ELSE {b \in PlainBatches : Len(b) = 1 /\ b[1]._id = "i1"}

\* The options of the calls: none, suppressAuth or suppressHooks.
CallOptions == {o \in NasriyaDataOptions : ~o.suppressAuth \/ ~o.suppressHooks}

Operation(c) ==
    \/ \E n \in CollectionNames : \E id \in IdsFor(n), o \in CallOptions :
          GetItem(c, n, id, o) \/ Remove(c, n, id, o)
    \/ \E n \in CollectionNames : \E ids \in IdSetsFor(n), o \in CallOptions :
          BulkRemove(c, n, ids, o)
    \/ \E n \in CollectionNames : \E item \in ItemsFor(n) : \E uuid \in Uuids(<<item>>) :
          \E o \in CallOptions : Insert(c, n, item, o, uuid[1])
    \/ \E n \in CollectionNames : \E item \in ItemsFor(n), o \in CallOptions :
          \/ Update(c, n, item, o)
          \/ SaveProbe(c, n, item, o)
    \/ \E n \in CollectionNames : \E items \in BatchesFor(n) : \E uuids \in Uuids(items) :
          \E o \in CallOptions : BulkInsert(c, n, items, o, uuids)
    \/ \E n \in CollectionNames : \E items \in BatchesFor(n), o \in CallOptions :
          \/ BulkUpdate(c, n, items, o)
          \/ BulkSaveProbes(c, n, items, o)
    \/ \E uuid \in Ids \cup {NoKey} : SaveWrite(c, uuid)
    \/ \E i \in 1..MaxBulk : BulkSaveProbe(c, i)
    \/ \E uuids \in UuidLists : BulkSaveWrite(c, uuids)
    \/ \E f \in Filters, o \in CallOptions : Find(c, f, o) \/ Count(c, f, o)

\* The inserts and removes another handle makes on the same collection.
Other(c) ==
    \E n \in StoreCollections, o \in CallOptions :
        \/ \E item \in PlainItems : \E uuid \in Uuids(<<item>>) : Insert(c, n, item, o, uuid[1])
        \/ \E id \in Ids : Remove(c, n, id, o)

Next == Operation("c1") \/ Other("c2")

Spec == Init /\ [][Next]_vars

\* Every client configuration and every declaration of permissions.
InitAuth ==
    /\ InitClients
    /\ permissions \in DeclaredPermissions
    /\ schema = NoSchema
    /\ hooks = NoHooks
    /\ InitRun

NextAuth ==
    \E c \in Clients, o \in NasriyaDataOptions :
        \/ \E a \in AccessTypes : EvalClient(c, a, o)
        \/ EvalQuery(c, o)
        \/ EvalAggregate(c, o)

SpecAuth == InitAuth /\ [][NextAuth]_vars

\* A logged-in member on a collection open to anyone, with every schema.
InitSchema ==
    /\ InitClients
    /\ authorization["c1"] = "User" /\ user["c1"].role = "Member"
    /\ permissions = [a \in AccessTypes |-> "Anyone"]
    /\ schema \in Schemas
    /\ hooks = [NoHooks EXCEPT !.onFailure = "returns"]
    /\ InitRun

NextSchema ==
    \E n \in StoreCollections :
        \/ \E item \in NewItems : \E uuid \in Uuids(<<item>>) :
              Insert("c1", n, item, DefaultOptions, uuid[1])
        \/ \E items \in BulkItems(NewItems) : \E uuids \in Uuids(items) :
              BulkInsert("c1", n, items, DefaultOptions, uuids)
        \/ \E id \in Ids : Remove("c1", n, id, DefaultOptions)

SpecSchema == InitSchema /\ [][NextSchema]_vars

\* The clock advances.
Tick ==
    /\ clock < MaxClock
    /\ clock' = clock + 1
    /\ UNCHANGED <<authorization, user, permissions, schema, hooks, store, pc, last, eval,
                   stages, database, queryResult, queryObject, queryConfig>>

\* The dates callers pass: no date or the latest time, as a Date or as a
\* date string, for _createdDate; no date, the earliest time, as a Date or as
\* a date string, or a number for _updatedDate.
DateInputs ==
    [_createdDate : {NoDate} \cup [rep : {"Date", "string"}, t : {MaxClock}],
     _updatedDate : {NoDate} \cup [rep : {"Date", "string", "number"}, t : {0}]]

\* The items of the calls that carry dates.
DatedItems ==
    {item \in Items :
        /\ item._id \in {"i1", NoKey} /\ item.f = "a" /\ item._owner = NoKey
        /\ [_createdDate |-> item._createdDate, _updatedDate |-> item._updatedDate]
              \in DateInputs}

\* The items of the bulk calls that carry dates: without dates, or with a late
\* _createdDate and an early _updatedDate.
DatedBulkItems ==
    {item \in DatedItems :
        \/ item._createdDate = NoDate /\ item._updatedDate = NoDate
        \/ /\ item._createdDate = [rep |-> "string", t |-> MaxClock]
           /\ item._updatedDate = [rep |-> "Date", t |-> 0]}

\* A logged-in member on a collection open to anyone, without a schema.
InitDates ==
    /\ InitClients
    /\ authorization["c1"] = "User" /\ user["c1"].role = "Member"
    /\ permissions = [a \in AccessTypes |-> "Anyone"]
    /\ schema = NoSchema
    /\ hooks = [NoHooks EXCEPT !.onFailure = "returns"]
    /\ InitRun

\* The arrays of dated items handed to the bulk operations.
DatedBatches == BulkItems(DatedBulkItems)

NextDates ==
    \/ Tick
    \/ \E n \in StoreCollections :
        \/ \E item \in DatedItems :
              \/ \E uuid \in Uuids(<<item>>) : Insert("c1", n, item, DefaultOptions, uuid[1])
              \/ Update("c1", n, item, DefaultOptions)
              \/ SaveProbe("c1", n, item, DefaultOptions)
        \/ \E items \in DatedBatches :
              \/ \E uuids \in Uuids(items) : BulkInsert("c1", n, items, DefaultOptions, uuids)
              \/ BulkUpdate("c1", n, items, DefaultOptions)
              \/ BulkSaveProbes("c1", n, items, DefaultOptions)
    \/ \E uuid \in Ids \cup {NoKey} : SaveWrite("c1", uuid)
    \/ \E i \in 1..MaxBulk : BulkSaveProbe("c1", i)
    \/ \E uuids \in UuidLists : BulkSaveWrite("c1", uuids)

SpecDates == InitDates /\ [][NextDates]_vars

\* createClient accepts every non-empty string as the id of a logged-in user:
\* the options of a user whose id is "system".
SystemNamedOptions ==
    [authorization : {"User"},
     user : [loggedIn : {TRUE}, role : {"Member", "Admin"}, id : {"system"}]]

\* The items of the calls that name an owner or leave it to the adapter.
OwnerItems ==
    {item \in Items : /\ item._id \in {"i1", NoKey} /\ item.f = "a"
                      /\ item._createdDate = NoDate /\ item._updatedDate = NoDate}

OwnerBatches == BulkItems({item \in OwnerItems : item._owner \in {NoKey, "u2"}})

\* Every caller identity, on a collection whose write permission is Anyone or
\* Member.
InitOwner ==
    /\ \E opts \in ClientCreationOptions("c1") \cup SystemNamedOptions :
          /\ authorization = [c \in Clients |-> IF c = "c1" THEN NewClient(opts).authorization
                                               ELSE OtherClient.authorization]
          /\ user = [c \in Clients |-> IF c = "c1" THEN NewClient(opts).user
                                      ELSE OtherClient.user]
    /\ permissions \in {p \in [AccessTypes -> {"Anyone", "Member"}] :
                           p["read"] = "Anyone" /\ p["modify"] = p["write"]
                           /\ p["delete"] = "Anyone"}
    /\ schema = NoSchema
    /\ hooks = [NoHooks EXCEPT !.onFailure = "returns"]
    /\ InitRun

\* The operations that insert documents.
NextOwner ==
    \/ \E n \in StoreCollections :
        \/ \E item \in OwnerItems :
              \/ \E uuid \in Uuids(<<item>>) : Insert("c1", n, item, DefaultOptions, uuid[1])
              \/ SaveProbe("c1", n, item, DefaultOptions)
        \/ \E items \in OwnerBatches :
              \/ \E uuids \in Uuids(items) : BulkInsert("c1", n, items, DefaultOptions, uuids)
              \/ BulkSaveProbes("c1", n, items, DefaultOptions)
    \/ \E uuid \in Ids \cup {NoKey} : SaveWrite("c1", uuid)
    \/ \E i \in 1..MaxBulk : BulkSaveProbe("c1", i)
    \/ \E uuids \in UuidLists : BulkSaveWrite("c1", uuids)

SpecOwner == InitOwner /\ [][NextOwner]_vars

\* The definitions of the hooks of a collection: the before hooks behave
\* alike, and so do the after hooks and onFailure.
HookProfiles ==
    {[name \in HookNames |->
        IF name \in {"beforeGetItem", "beforeInsert", "beforeBulkInsert", "beforeRemove",
                          "beforeBulkRemove", "beforeUpdate", "beforeBulkUpdate"}
             THEN profile.before
             ELSE profile.after] :
        profile \in [before : HookBehaviours \cup {Absent},
                     after : {Absent, "returns", "throws"}]}

\* The items of the calls on a collection with hooks: a new item, which leaves
\* _owner to the adapter, and an item with an id, which names an owner or not.
HookItems ==
    {item \in Items : /\ item._id \in {"i1", NoKey}
                      /\ item._owner \in {NoKey, "u2"}
                      /\ item._id = NoKey => item._owner = NoKey
                      /\ item.f # NoKey
                      /\ item._createdDate \in {NoDate, [rep |-> "Date", t |-> MaxClock]}
                      /\ item._createdDate = NoDate <=> item._owner = NoKey
                      /\ item._updatedDate = NoDate}

\* The arrays of the bulk calls: of an item that names its owner and of a new
\* item.
HookBatches ==
    BulkItems({item \in HookItems : /\ item.f = "a"
                                    /\ item._id = NoKey <=> item._owner = NoKey})

\* The calls that suppress the hooks and the calls that do not.
HookOptions == [suppressAuth : {FALSE}, suppressHooks : BOOLEAN]

\* A logged-in member on a collection open to anyone, with every definition
\* of the hooks, without a schema or with f declared a String.
InitHooks ==
    /\ InitClients
    /\ authorization["c1"] = "User" /\ user["c1"].role = "Member"
    /\ permissions = [a \in AccessTypes |-> "Anyone"]
    /\ schema \in {sch \in Schemas : sch.kind \in {"none", "primitive"}}
    /\ hooks \in HookProfiles
    /\ InitRun

\* Whether an item is passed on a collection with the schema sch: where no
\* schema looks at f, the string stands for every value.
PassedWith(sch, item) == sch # NoSchema \/ item.f = "a"

NextHooks ==
    \/ \E n \in StoreCollections, o \in HookOptions :
        \/ \E id \in Ids : GetItem("c1", n, id, o) \/ Remove("c1", n, id, o)
        \/ \E ids \in SUBSET Ids : BulkRemove("c1", n, ids, o)
        \/ \E item \in HookItems :
              \/ \E uuid \in Uuids(<<item>>) :
                    PassedWith(schema, item) /\ Insert("c1", n, item, o, uuid[1])
              \/ PassedWith(schema, item) /\ Update("c1", n, item, o)
              \/ PassedWith(schema, item) /\ SaveProbe("c1", n, item, o)
        \/ \E items \in HookBatches :
              \/ \E uuids \in Uuids(items) : BulkInsert("c1", n, items, o, uuids)
              \/ BulkUpdate("c1", n, items, o)
              \/ BulkSaveProbes("c1", n, items, o)
    \/ \E uuid \in Ids \cup {NoKey} : SaveWrite("c1", uuid)
    \/ \E i \in 1..MaxBulk : BulkSaveProbe("c1", i)
    \/ \E uuids \in UuidLists : BulkSaveWrite("c1", uuids)

SpecHooks == InitHooks /\ [][NextHooks]_vars

\* The items and arrays passed to bulkSave.
SavedItems == {item \in PlainItems : item._id \in {"i1", NoKey}}

SavedBatches == BulkItems(SavedItems)

\* bulkSave and the inserts before it, with existence probes that can fail.
NextBulkSave ==
    \/ Tick
    \/ \E n \in StoreCollections :
        \/ \E item \in SavedItems : \E uuid \in Uuids(<<item>>) :
              Insert("c1", n, item, DefaultOptions, uuid[1])
        \/ \E items \in SavedBatches : BulkSaveProbes("c1", n, items, DefaultOptions)
    \/ \E i \in 1..MaxBulk : BulkSaveProbe("c1", i) \/ BulkSaveProbeFailure("c1", i)
    \/ \E uuids \in UuidLists : BulkSaveWrite("c1", uuids)

SpecBulkSave == InitDates /\ [][NextBulkSave]_vars

\* The definitions in which read and delete are declared like modify, with
\* every declaration of modify and of write, set or not.
SuppressProfiles ==
    {p \in DeclaredPermissions : p["read"] = p["modify"] /\ p["delete"] = p["modify"]}

\* The calls that suppress the access check and the calls that do not.
SuppressOptions == [suppressAuth : BOOLEAN, suppressHooks : {FALSE}]

\* The items of these calls: of the caller or of another owner.
SuppressItems ==
    {item \in Items : /\ item._id \in {"i1", NoKey} /\ item.f = "a"
                      /\ item._owner \in {NoKey, "u2"}
                      /\ item._id = NoKey <=> item._owner = "u2"
                      /\ item._createdDate = NoDate /\ item._updatedDate = NoDate}

SuppressBatches == BulkItems(SuppressItems)

\* Every caller and every declaration of the permissions.
InitSuppress ==
    /\ InitClients
    /\ permissions \in SuppressProfiles
    /\ schema = NoSchema
    /\ hooks = [NoHooks EXCEPT !.onFailure = "returns"]
    /\ InitRun

NextSuppress ==
    \/ \E n \in StoreCollections, o \in SuppressOptions :
        \/ \E id \in Ids : GetItem("c1", n, id, o) \/ Remove("c1", n, id, o)
        \/ BulkRemove("c1", n, Ids, o)
        \/ \E item \in SuppressItems :
              \/ \E uuid \in Uuids(<<item>>) : Insert("c1", n, item, o, uuid[1])
              \/ Update("c1", n, item, o)
              \/ SaveProbe("c1", n, item, o)
        \/ \E items \in SuppressBatches :
              \/ \E uuids \in Uuids(items) : BulkInsert("c1", n, items, o, uuids)
              \/ BulkUpdate("c1", n, items, o)
              \/ BulkSaveProbes("c1", n, items, o)
    \/ \E f \in Filters, o \in SuppressOptions : Find("c1", f, o) \/ Count("c1", f, o)
    \/ \E o \in SuppressOptions : Execute("c1", o)
    \/ \E uuid \in Ids \cup {NoKey} : SaveWrite("c1", uuid)
    \/ \E i \in 1..MaxBulk : BulkSaveProbe("c1", i)
    \/ \E uuids \in UuidLists : BulkSaveWrite("c1", uuids)

SpecSuppress == InitSuppress /\ [][NextSuppress]_vars

\* Every caller and every declaration of the read permission, on a collection
\* anyone can write to.
InitAggregate ==
    /\ InitClients
    /\ permissions \in {p \in DeclaredPermissions :
                            \A a \in AccessTypes \ {"read"} : p[a] = "Anyone"}
    /\ schema = NoSchema
    /\ hooks = [NoHooks EXCEPT !.onFailure = "returns"]
    /\ InitRun

\* The aggregates a caller builds and executes, and the inserts of the caller
\* and of another handle.
NextAggregate ==
    \/ \E n \in StoreCollections, item \in SavedItems : \E uuid \in Uuids(<<item>>) :
          Insert("c1", n, item, DefaultOptions, uuid[1])
              \/ Insert("c2", n, item, DefaultOptions, uuid[1])
    \/ \E n \in StoreCollections : Aggregate("c1", n)
    \/ \E stage \in BuilderStages : Stage(stage)
    \/ \E o \in SuppressOptions, rejected \in BOOLEAN : AggregateExecute("c1", o, rejected)

SpecAggregate == InitAggregate /\ [][NextAggregate]_vars

\* The finds of a caller with a filter, a skip and a limit, the pages asked
\* of their results, and the inserts of the caller and of another handle.
NextQuery ==
    \/ \E n \in StoreCollections, item \in SavedItems : \E uuid \in Uuids(<<item>>) :
          Insert("c1", n, item, DefaultOptions, uuid[1])
              \/ Insert("c2", n, item, DefaultOptions, uuid[1])
    \/ \E f \in {EmptyFilter, eq(EmptyFilter, "_owner", "u2")},
          skip \in 0..1, limit \in Limits, o \in SuppressOptions :
          QueryFind("c1", f, skip, limit, o)
    \/ \E outcome \in CursorOutcomes : QueryResultNext(outcome)

SpecQuery == InitAggregate /\ [][NextQuery]_vars

\* getItem calls of a handle, in steps, and the db() calls on the same handle
\* between them.
NextDb ==
    \/ \E name \in DatabaseNames : Db("c1", name)
    \/ \E n \in StoreCollections, id \in Ids : GetItemCall("c1", n, id)
    \/ GetItemPrepare("c1")
    \/ GetItemFind("c1")

SpecDb == Init /\ [][NextDb]_vars

\* The caller builds a filter with the methods of the Filter Builder.
NextFilter ==
    \/ \E p \in FilterProperties, start \in RangeValues, end \in RangeValues :
          Refine("between", between(queryObject, p, start, end))
    \/ \E p \in FilterProperties, v \in ArrayValues :
          \E m \in {<<"hasAll", "$all">>, <<"hasSome", "$in">>, <<"in", "$in">>,
                    <<"nin", "$nin">>} :
             Refine(m[1], hasAll(queryObject, m[2], p, v))
    \/ \E p \in FilterProperties :
          \E m \in {<<"gte", "$gte">>, <<"gt", "$gt">>, <<"lt", "$lt">>, <<"lte", "$lte">>,
                    <<"startsWith", "^RegExp">>, <<"endsWith", "RegExp$">>,
                    <<"contains", "RegExp">>} :
             Refine(m[1], gte(queryObject, m[2], p, "a"))
    \/ \E p \in FilterProperties, v \in {"a", "n7"}, o \in EqualityOptions :
          \E m \in {<<"eq", "$eq">>, <<"ne", "$ne">>} :
             Refine(m[1], equality(queryObject, m[2], p, v, o))
    \/ \E p \in FilterProperties, v \in {"true", "a", Absent} :
          Refine("exists", exists(queryObject, p, v))
    \/ \E v \in TypeValues : Refine("type", type(queryObject, "f", v))
    \/ Refine("type", type(queryObject, Absent, [isArray |-> FALSE, types |-> <<"string">>]))
    \/ \E f \in SubFilters :
          \E m \in {<<"and", "$and">>, <<"nor", "$nor">>, <<"or", "$or">>} :
             Refine(m[1], and(queryObject, m[2], f))
    \/ \E f \in SubFilters : Refine("not", not(queryObject, f))

\* One client and a collection anyone may use.
InitFilter ==
    /\ InitAggregate
    /\ authorization["c1"] = "User" /\ user["c1"].role = "Member"
    /\ permissions["read"] = "Anyone"

SpecFilter == InitFilter /\ [][NextFilter]_vars

----------------------------------------------------------------------------
(* Properties of the access evaluators, under SpecAuth *)

\* An evaluator was consulted: the call did not suppress authorization.
Evaluated == eval.evaluator # "none" /\ ~eval.suppressAuth

\* C1: under User authorization, for a logged-in caller and a permission
\* declared as Admin, the verdict is Denied for the role Member and Allowed
\* for the role Admin, for every access type and in every evaluator.
C1_AdminGate ==
    (/\ Evaluated
     /\ authorization[eval.client] = "User"
     /\ user[eval.client].loggedIn
     /\ permissions[eval.accessType] = "Admin")
    => eval.verdict = IF user[eval.client].role = "Admin" THEN "Allowed" ELSE "Denied"

\* C8: for a client created with System authorization the verdict is Allowed
\* for every declared permission, set or not, every access type and every
\* caller, in every evaluator.
C8_SystemBypass ==
    (eval.evaluator # "none" /\ authorization[eval.client] = "System")
    => eval.verdict = "Allowed"

C8_Witness ==
    /\ Evaluated
    /\ eval.evaluator = "aggregate"
    /\ authorization[eval.client] = "System"
    /\ permissions[eval.accessType] = "Admin"
    /\ eval.verdict = "Allowed"

C10_LoginRequirement ==
    (/\ Evaluated
     /\ authorization[eval.client] = "User"
     /\ ~user[eval.client].loggedIn)
    => /\ permissions[eval.accessType] \in {"Member", "MemberAuthor", "Admin"}
          => eval.verdict = "Denied"
       /\ permissions[eval.accessType] = "Anyone" => eval.verdict = "Allowed"

C10_Witness ==
    /\ Evaluated
    /\ eval.evaluator = "query"
    /\ authorization[eval.client] = "User"
    /\ ~user[eval.client].loggedIn
    /\ permissions[eval.accessType] = "MemberAuthor"
    /\ eval.verdict = "Denied"

----------------------------------------------------------------------------
(* Properties of the operations, under Spec *)

OrchestratorOps ==
    {"getItem", "insert", "bulkInsert", "update", "bulkUpdate", "remove", "bulkRemove",
     "save", "bulkSave"}

\* C2: with read declared MemberAuthor, a logged-in User-mode caller that does
\* not suppress authorization never gets or counts, through find() or count(),
\* a document whose _owner is not the caller's id, whatever the filter.
C2_QueryOwnershipScoping ==
    (/\ last.op \in {"find", "count"}
     /\ permissions["read"] = "MemberAuthor"
     /\ authorization[last.client] = "User"
     /\ user[last.client].loggedIn
     /\ ~last.options.suppressAuth)
    => last.owners \subseteq {user[last.client].id}

\* A step that ends a getItem, remove, bulkRemove, update or bulkUpdate whose
\* verdict is Owned-Items: every criteria sent carries the caller's id as
\* _owner, the documents matched are the caller's, and the documents of the
\* other owners are as they were.
OwnedItemsStep ==
    (/\ last'.op \in {"getItem", "remove", "bulkRemove", "update", "bulkUpdate"}
     /\ last'.verdict = "Owned-Items")
    => /\ last'.criteriaOwners \subseteq {user[last'.client].id}
       /\ last'.owners \subseteq {user[last'.client].id}
       /\ (last'.error = "none" /\ last'.op # "bulkUpdate")
             => last'.criteriaOwners = {user[last'.client].id}
       /\ \A id \in DOMAIN store :
             store[id].owner # user[last'.client].id
                => id \in DOMAIN store' /\ store'[id] = store[id]

\* C3: whenever the verdict of getItem, remove, bulkRemove, update or
\* bulkUpdate is Owned-Items, the criteria carry _owner equal to the caller's
\* id, and no document of another owner is returned, modified or deleted.
C3_CrudOwnershipScoping == [][OwnedItemsStep]_vars

C3_Witness ==
    /\ last.op = "bulkRemove"
    /\ last.verdict = "Owned-Items"
    /\ last.criteriaOwners = {"u1"}
    /\ last.owners = {"u1"}
    /\ \E id \in DOMAIN store : store[id].owner = "u2"

\* A step that ends a mutating operation whose verdict is Denied: the
\* operation fails, issues no mutating store call and leaves the documents.
DeniedStep ==
    (/\ last'.op \in OrchestratorOps \ {"getItem"}
     /\ (last'.verdict = "Denied" \/ last'.error = "denied"))
    => /\ last'.error = "denied"
       /\ last'.calls \cap MutationCalls = {}
       /\ store' = store

\* C4: for insert, bulkInsert, update, bulkUpdate, remove, bulkRemove, save
\* and bulkSave, a Denied verdict makes the operation fail without any
\* insert, update, delete or bulkWrite call: the stored documents are the same
\* before and after the call.
C4_DeniedMeansNoMutation == [][DeniedStep]_vars

C4_Witness ==
    /\ last.op = "remove"
    /\ last.verdict = "Denied"
    /\ last.error = "denied"
    /\ DOMAIN store = Ids

\* The verdict of the observed caller for the write permission.
WriteVerdict(c) == authUser(authorization[c], user[c], permissions["write"])

\* A step that ends a save or bulkSave that does not suppress authorization:
\* a caller whose write verdict is Denied creates no document, and the call is
\* denied only when something would have to be created.
TwoTierStep ==
    (/\ last'.op \in {"save", "bulkSave"}
     /\ ~last'.options.suppressAuth)
    => /\ WriteVerdict(last'.client) = "Denied"
          => DOMAIN store' \subseteq DOMAIN store /\ last'.created = {}
       /\ (last'.error = "denied" /\ last'.verdict # "Denied")
          => WriteVerdict(last'.client) = "Denied"

\* C6: without suppressAuth, save() and bulkSave() update an existing document
\* under the modify permission alone and create a document only if the write
\* verdict is not Denied, under every interleaving with the inserts and
\* removes other clients make on the same _id.
C6_TwoTierAuthorization == [][TwoTierStep]_vars

\* A save whose probe found the document, which another client removed before
\* the write: the update matches nothing and nothing is created.
C6_Witness ==
    /\ last.op = "save"
    /\ ~last.options.suppressAuth
    /\ permissions["write"] = "Admin"
    /\ permissions["modify"] = "Anyone"
    /\ "updateOne" \in last.calls
    /\ last.error = "none"
    /\ last.owners = {}
    /\ last.created = {}

\* C7: every failure of an Orchestrator operation is routed to the Failure
\* Reporter exactly once, and the Failure Reporter invokes the onFailure hook
\* when one is registered and hooks are not suppressed.
C7_UniformFailureRouting ==
    (last.op \in OrchestratorOps /\ last.error # "none")
    => /\ last.reported = 1
       /\ last.hookCalls = IF hooks.onFailure # Absent /\ ~last.options.suppressHooks THEN 1 ELSE 0

----------------------------------------------------------------------------
(* Properties of insert and bulkInsert with a schema, under SpecSchema *)

\* An insert() of an item that lacks the field f.
InsertWithoutField(uuid) ==
    \E item \in NewItems :
        /\ item.f = NoKey
        /\ Insert("c1", "Members", item, DefaultOptions, uuid)

\* A bulkInsert() of items of which one lacks the field f.
BulkInsertWithoutField ==
    \E items \in BulkItems(NewItems) : \E uuids \in Uuids(items) :
        /\ \E i \in DOMAIN items : items[i].f = NoKey
        /\ BulkInsert("c1", "Members", items, DefaultOptions, uuids)

RequiredStep ==
    /\ (schema.kind = "custom" /\ schema.required = "true" /\ schema.default = NoKey)
       => /\ \A uuid \in Ids : InsertWithoutField(uuid)
                => last'.error # "none" /\ store' = store
          /\ BulkInsertWithoutField => last'.error # "none" /\ store' = store
    /\ (schema.kind = "custom" /\ schema.required = "true" /\ schema.default # NoKey)
       => \A uuid \in Ids : InsertWithoutField(uuid)
             => /\ last'.error = "none"
                /\ uuid \in DOMAIN store'
                /\ store'[uuid].f = schema.default

\* C5: insert() and bulkInsert() of an item that lacks a field declared
\* required: true with no default fail and write nothing; with a default
\* declared, the operation succeeds and the stored document carries the
\* default value of the field.
C5_RequiredAndDefault == [][RequiredStep]_vars

----------------------------------------------------------------------------
(* Properties of the dates, under SpecDates *)

\* Both dates are given, as a Date or a date string, and _updatedDate is the
\* earlier one.
Backdated(item) ==
    /\ item._createdDate.rep \in {"Date", "string"}
    /\ item._updatedDate.rep \in {"Date", "string"}
    /\ item._updatedDate.t < item._createdDate.t

BackdatedItems == {item \in DatedItems : Backdated(item)}

BackdatedBatches ==
    {items \in DatedBatches : \E i \in DOMAIN items : Backdated(items[i])}

\* A step that is not a failed call that wrote nothing is not the insert,
\* bulkInsert or inserting save of a backdated item.
BackdatedStep ==
    (last'.error # "dates" \/ store' # store)
    => /\ last'.op = "insert"
          => ~ \E item \in BackdatedItems : \E uuid \in Ids \cup {NoKey} :
                  Insert("c1", "Members", item, DefaultOptions, uuid)
       /\ last'.op = "bulkInsert"
          => ~ \E items \in BackdatedBatches : \E uuids \in Uuids(items) :
                  BulkInsert("c1", "Members", items, DefaultOptions, uuids)
       /\ last'.op = "save"
          => ~ (/\ pc["c1"].op = "save"
                /\ ~pc["c1"].exist
                /\ Backdated(pc["c1"].item))

\* C11: insert normalization fails, and nothing is written, for every item
\* whose given _updatedDate is earlier than its given _createdDate, whether
\* each of the two is a Date or a valid date string.
C11_InsertDateOrdering == [][BackdatedStep]_vars

C11_Witness ==
    /\ last.op = "bulkInsert"
    /\ last.error = "dates"
    /\ last.created = {}

\* C12: in every reachable state, after any sequence of insert, bulkInsert,
\* update, bulkUpdate, save and bulkSave calls, every stored document has
\* _updatedDate >= _createdDate.
C12_StoredDateInvariant ==
    \A id \in DOMAIN store : store[id].updated >= store[id].created

----------------------------------------------------------------------------
(* Properties of the owner field, under SpecOwner *)

\* C13: every document written by insert, bulkInsert or the insert path of
\* save and bulkSave carries a string _owner: exactly "system" under System
\* authorization, and under User authorization never "system" in any letter
\* case, for every caller identity.
C13_OwnerFieldValidity ==
    \A id \in DOMAIN store :
        /\ store[id].owner # Absent
        /\ authorization["c1"] = "System" => store[id].owner = "system"
        /\ authorization["c1"] = "User" => toLowerCase(store[id].owner) # "system"

----------------------------------------------------------------------------
(* Properties of the hook pipeline, under SpecHooks *)

\* A step of update, bulkUpdate, bulkSave or the update path of save.
UpdatingStep ==
    \/ last'.op \in {"update", "bulkUpdate", "bulkSave"}
    \/ last'.op = "save" /\ pc["c1"].op = "save" /\ pc["c1"].exist

\* The documents that exist before and after the step keep _owner and
\* _createdDate.
OwnershipKept ==
    \A id \in DOMAIN store \cap DOMAIN store' :
        /\ store'[id].owner = store[id].owner
        /\ store'[id].created = store[id].created

\* C14, as stated: update, bulkUpdate and the update path of save and bulkSave
\* never change the stored _owner or _createdDate of an existing document,
\* whatever the caller puts in the item and whatever the hooks beforeUpdate
\* and beforeBulkUpdate do and return.
C14_OwnershipImmutable == [][UpdatingStep => OwnershipKept]_vars

\* The hooks beforeUpdate and beforeBulkUpdate leave the objects they are
\* handed as they are.
HooksKeepPayload ==
    /\ hooks["beforeUpdate"] # "edits"
    /\ hooks["beforeBulkUpdate"] # "edits"

\* C14, amended: update, bulkUpdate and the update path of save and bulkSave
\* never change the stored _owner or _createdDate of an existing document,
\* whatever the caller puts in the item and whatever object the hooks
\* beforeUpdate and beforeBulkUpdate return, as long as these hooks do not
\* change the objects they are handed.
C14_OwnershipImmutableAmended ==
    [][(HooksKeepPayload /\ UpdatingStep) => OwnershipKept]_vars

C14_Witness ==
    /\ last.op = "bulkUpdate"
    /\ last.error = "none"
    /\ hooks["beforeBulkUpdate"] = "replaces"
    /\ "beforeBulkUpdate" \in last.hooksInvoked
    /\ last.owners = {"u1"}

\* C17: whenever the Failure Reporter runs it ends by throwing, whether the
\* onFailure hook is absent, suppressed, returns or throws, and what it throws
\* is the record of the operation that carries the original error.
C17_RootCausePreserved ==
    last.reported = 1
    => /\ last.error # "none"
       /\ last.thrown = [kind |-> "record", type |-> last.op, error |-> last.error]

C17_Witness ==
    /\ last.reported = 1
    /\ hooks["onFailure"] = "throws"
    /\ "onFailure" \in last.hooksInvoked
    /\ last.error = "storage"

\* A step of a call that suppresses the hooks invokes no hook, the documents
\* it inserts have an _owner, the documents it leaves in place keep _owner and
\* _createdDate, and the f it writes has the type the schema declares.
SuppressedStep ==
    (last'.op # "none" /\ last'.options.suppressHooks = TRUE)
    => /\ last'.hooksInvoked = {}
       /\ last'.hookCalls = 0
       /\ \A id \in last'.created : store'[id].owner \notin {NoKey, Absent}
       /\ UpdatingStep => OwnershipKept
       /\ \A id \in DOMAIN store' :
             (id \notin DOMAIN store \/ store'[id] # store[id])
             => (schema.kind # "none" => checkType(schema.type, store'[id].f))

\* C18: a call with suppressHooks = true invokes no hook of the collection
\* (before, after, onFailure), while normalization and schema validation of the
\* items still run.
C18_SuppressHooks == [][SuppressedStep]_vars

C18_Witness ==
    /\ last.op = "update"
    /\ last.options.suppressHooks = TRUE
    /\ last.error = "none"
    /\ last.owners # {}
    /\ hooks["beforeUpdate"] = "edits"
    /\ hooks["afterUpdate"] = "returns"

\* An update whose beforeUpdate hook returned an object, and that succeeded on
\* a stored document, wrote the f of the returned object.
ReplacementStep ==
    (/\ last'.op = "update"
     /\ last'.error = "none"
     /\ hooks["beforeUpdate"] = "replaces"
     /\ "beforeUpdate" \in last'.hooksInvoked)
    => \A item \in HookItems : \A o \in HookOptions :
          (Update("c1", "Members", item, o) /\ item._id \in DOMAIN store)
          => store'[item._id].f = Replaced(item).f

\* C20: when a beforeUpdate hook returns an object, update() writes the fields
\* of the returned object, after normalization and schema validation, instead
\* of the item passed to update().
C20_ReplacementWritten == [][ReplacementStep]_vars

----------------------------------------------------------------------------
(* Properties of bulkSave, under SpecBulkSave *)

\* The step that ends a bulkSave call.
BulkSaveEnds == pc["c1"].op = "bulkSave" /\ pc'["c1"] = Idle

\* C15: a bulkSave of one item without _id and one item whose _id exists, both
\* written, returns operation 'Mixed', insertedCount 1 and updatedCount 1.
C15_BulkSaveCounts ==
    [][(/\ BulkSaveEnds
        /\ Len(pc["c1"].items) = 2
        /\ Len(pc["c1"].toUpdate) = 1
        /\ Len(pc["c1"].toInsert) = 1
        /\ pc["c1"].toInsert[1]._id = NoKey
        /\ last'.error = "none"
        /\ Cardinality(last'.created) = 1
        /\ \E id \in DOMAIN store : store'[id] # store[id])
       => last'.returned = [operation |-> "Mixed", insertedCount |-> 1,
                            updatedCount |-> 1]]_vars

\* C16: a failed existence probe does not abort bulkSave and does not exclude
\* the item: when the call ends every input item is in exactly one of toUpdate
\* and toInsert.
C16_BulkSaveFanOut ==
    [][BulkSaveEnds
       => /\ last'.op = "bulkSave"
          /\ Len(pc["c1"].toUpdate) + Len(pc["c1"].toInsert) = Len(pc["c1"].items)]_vars

----------------------------------------------------------------------------
(* Properties of suppressAuth, under SpecSuppress *)

\* A step of a call that suppresses the access check is not denied and has no
\* _owner in its criteria or pipeline; a find or count returns what its own
\* filter matches.
SuppressedAuthStep ==
    (last'.op # "none" /\ last'.options.suppressAuth = TRUE)
    => /\ last'.error # "denied"
       /\ last'.criteriaOwners \subseteq {NoKey}
       /\ last'.op \in {"find", "count"}
          => \A f \in Filters : \A o \in SuppressOptions :
                (Find("c1", f, o) \/ Count("c1", f, o))
                => last'.owners = OwnersOf(store, find(store, f))

BulkReplacementStep ==
    (/\ last'.op = "bulkInsert"
     /\ last'.error = "none"
     /\ hooks["beforeBulkInsert"] = "replaces"
     /\ "beforeBulkInsert" \in last'.hooksInvoked)
    => \A id \in last'.created : \A item \in HookItems : store'[id].f = Replaced(item).f

\* C21: when a beforeBulkInsert hook returns an array of objects, bulkInsert()
\* inserts the returned objects, after normalization and schema validation,
\* instead of the items passed to bulkInsert().
C21_BulkReplacementInserted == [][BulkReplacementStep]_vars

\* C22: a successful remove() that does not suppress the hooks invokes the
\* registered beforeRemove hook and the registered afterRemove hook, each
\* once.
C22_RemoveHookDispatch ==
    (/\ last.op = "remove"
     /\ last.error = "none"
     /\ last.options.suppressHooks # TRUE)
    => \A name \in {"beforeRemove", "afterRemove"} :
          hooks[name] # Absent => name \in last.hooksInvoked

\* C23: when the afterInsert hook throws, insert() routes the error to the
\* Failure Reporter with operation 'insert' and the registered onFailure hook
\* is invoked before the call fails.
C23_AfterInsertFailureReported ==
    (/\ last.op = "insert"
     /\ hooks["afterInsert"] = "throws"
     /\ "afterInsert" \in last.hooksInvoked
     /\ hooks["onFailure"] # Absent)
    => /\ last.reported = 1
       /\ "onFailure" \in last.hooksInvoked
       /\ last.thrown = [kind |-> "record", type |-> "insert", error |-> "hook"]

----------------------------------------------------------------------------
(* Properties of aggregate.execute, under SpecAggregate *)

\* C24: every failure of aggregate.execute(), a failure of the store while it
\* runs the pipeline or materializes the result array included, is routed to
\* the Failure Reporter with dataOperation 'aggregate'.
C24_AggregateFailureRouting ==
    (last.op = "aggregate" /\ last.error # "none")
    => /\ last.reported = 1
       /\ last.thrown = [kind |-> "record", type |-> "aggregate", error |-> last.error]

\* An execute whose read verdict is Owned-Items, without suppressAuth, sends a
\* pipeline that is the $match on _owner of the caller followed by the stages
\* the builder had accumulated.
OwnedPipelineStep ==
    (/\ \E o \in SuppressOptions, rejected \in BOOLEAN : AggregateExecute("c1", o, rejected)
     /\ last'.verdict = "Owned-Items"
     /\ last'.options.suppressAuth # TRUE
     /\ "aggregate" \in last'.calls)
    => /\ stages' # << >>
       /\ Head(stages') = [op |-> "$match", match |-> user["c1"].id]
       /\ Tail(stages') = stages

\* C25: when the read verdict of aggregate.execute() is Owned-Items and
\* suppressAuth is not set, the pipeline sent to the store starts with a $match
\* stage on _owner equal to the caller's id, ahead of every stage accumulated
\* by the builder, whatever stages were added and in whatever order.
C25_OwnershipStageFirst == [][OwnedPipelineStep]_vars

C25_Witness ==
    /\ last.op = "aggregate"
    /\ last.verdict = "Owned-Items"
    /\ last.options.suppressAuth # TRUE
    /\ last.error = "none"
    /\ Len(stages) = 3
    /\ stages[2] = [op |-> "$sort", match |-> NoKey]
    /\ stages[3] = [op |-> "$match", match |-> "u2"]
    /\ last.owners = {}
    /\ store # << >>

----------------------------------------------------------------------------
(* Properties of the order of the steps of an operation, under SpecSuppress *)

\* C26: in insert, bulkInsert, update and bulkUpdate no storage call of any
\* kind is issued before argument validation and authorization have
\* completed: a call that is rejected by either has issued no storage call,
\* and a call that fails before its storage call has mutated nothing.
C26_StepOrder ==
    (last.op \in {"insert", "bulkInsert", "update", "bulkUpdate"})
    => /\ last.error \in {"args", "denied"} => last.calls = {}
       /\ last.error \in {"args", "denied", "normalization", "dates", "schema"}
             => last.calls \cap MutationCalls = {}

----------------------------------------------------------------------------
(* Properties of the database selector, under SpecDb *)

\* C27: a getItem call in flight while db(name) is called on its handle makes
\* its collection-existence check, its permission resolution and its findOne
\* against the database that was selected when it was invoked.
C27_DbAffectsSubsequentCalls ==
    [][(pc["c1"].op = "getItem" /\ pc["c1"].at = "findOne" /\ pc'["c1"] = Idle)
       => /\ pc["c1"].checked = pc["c1"].invoked
          /\ pc["c1"].authorized = pc["c1"].invoked
          /\ database["c1"].selected = pc["c1"].invoked]_vars

----------------------------------------------------------------------------
(* Properties of query.find and of the QueryResult, under SpecQuery *)

\* The counts and limits for which the page count is computed on its own.
MaxCount == 12

\* A step of a find that returned the QueryResult the caller holds after it.
FoundStep ==
    /\ last'.op = "find"
    /\ last'.error = "none"
    /\ <<last, queryResult>>' # <<last, queryResult>>

\* Math.ceil(n / l) is the least number of pages of l items that hold n items.
LeastCover ==
    \A n \in 0..MaxCount, l \in Limits :
       /\ MathCeil(n, l) * l >= n
       /\ (MathCeil(n, l) - 1) * l < n \/ (n = 0 /\ MathCeil(n, l) = 0)

\* C28: the QueryResult of find() has totalPages = ceil(totalCount / limit),
\* the least number of pages of limit items that hold totalCount items, for
\* every totalCount >= 0 and every limit from 1 to 2000, where totalCount is
\* the number of documents that match the filter the page read used.
C28_PageCount ==
    [][FoundStep
       => /\ queryResult'.totalCount = Cardinality(find(store, queryResult'.cursor.filter))
          /\ queryResult'.totalPages * queryResult'.pageSize >= queryResult'.totalCount
          /\ (queryResult'.totalPages - 1) * queryResult'.pageSize < queryResult'.totalCount
                \/ (queryResult'.totalCount = 0 /\ queryResult'.totalPages = 0)
          /\ \A id \in Ids : (\E i \in DOMAIN queryResult'.items : queryResult'.items[i] = id)
                                => id \in find(store, queryResult'.cursor.filter)
          /\ LeastCover]_vars

C28_Witness ==
    /\ last.op = "find"
    /\ queryResult.totalCount = 2
    /\ queryResult.pageSize = 1
    /\ queryResult.totalPages = 2
    /\ queryResult.cursor.skip = 1
    /\ queryResult.items = <<"i2">>

\* The page that follows the pages a QueryResult holds.
NextPage(r) ==
    toArray(store, r.cursor.filter, r.cursor.skip + r.currentPage * r.pageSize, r.pageSize)

\* C29: when hasNext() is false, next() returns an empty list without a call
\* to the cursor and leaves currentPage, items and pageItems unchanged; when
\* hasNext() is true, next() fetches the next page, appends its items to items
\* and increments currentPage by one only if the page is not empty.
C29_QueryResultNext ==
    [][(\E outcome \in CursorOutcomes : QueryResultNext(outcome))
       => IF ~hasNext(queryResult)
          THEN last'.calls = {} /\ last'.error = "none" /\ queryResult' = queryResult
          ELSE /\ last'.error = "none"
               /\ queryResult'.pageItems = NextPage(queryResult)
               /\ IF NextPage(queryResult) # << >>
                  THEN /\ queryResult'.items = queryResult.items \o NextPage(queryResult)
                       /\ queryResult'.currentPage = queryResult.currentPage + 1
                  ELSE /\ queryResult'.items = queryResult.items
                       /\ queryResult'.currentPage = queryResult.currentPage]_vars

\* A caller that finds and then pages through the result in a loop, while
\* another handle inserts and removes documents. The loop keeps running: the
\* continuation of each await is scheduled by the event loop.
NextPaging ==
    \/ \E n \in StoreCollections, item \in SavedItems : \E uuid \in Uuids(<<item>>) :
          Insert("c1", n, item, DefaultOptions, uuid[1])
              \/ Insert("c2", n, item, DefaultOptions, uuid[1])
    \/ \E n \in StoreCollections, id \in Ids : Remove("c2", n, id, DefaultOptions)
    \/ \E skip \in 0..1, limit \in Limits :
          QueryFind("c1", EmptyFilter, skip, limit, DefaultOptions)
    \/ Paging("c1")
    \/ PagingHasNext("c1")
    \/ PagingNext("c1")

SpecPaging ==
    /\ InitFilter
    /\ [][NextPaging]_vars
    /\ WF_vars(PagingHasNext("c1"))
    /\ WF_vars(PagingNext("c1"))

\* save() and insert() of new items on a collection with a schema.
NextSaveSchema ==
    \E n \in StoreCollections :
        \/ \E item \in NewItems : \E uuid \in Uuids(<<item>>) :
              Insert("c1", n, item, DefaultOptions, uuid[1])
        \/ \E item \in NewItems : SaveProbe("c1", n, item, DefaultOptions)
        \/ \E uuid \in Ids \cup {NoKey} : SaveWrite("c1", uuid)
        \/ \E id \in Ids : Remove("c1", n, id, DefaultOptions)

SpecSaveSchema == InitSchema /\ [][NextSaveSchema]_vars

\* The hooks of a collection whose every hook returns a value of another
\* shape than its runner expects.
MalformedProfiles ==
    {[name \in HookNames |->
        IF name = "onFailure" THEN "returns"
        ELSE IF name \in {"beforeBulkInsert", "afterBulkInsert", "beforeBulkUpdate"}
        THEN bulk[name]
        ELSE "malformed"] :
        bulk \in [{"beforeBulkInsert", "afterBulkInsert", "beforeBulkUpdate"}
                     -> MalformedOutputs]}

InitHookOutput ==
    /\ InitClients
    /\ authorization["c1"] = "User" /\ user["c1"].role = "Member"
    /\ permissions = [a \in AccessTypes |-> "Anyone"]
    /\ schema = NoSchema
    /\ hooks \in MalformedProfiles
    /\ InitRun

\* The operations that run hooks, on items and arrays the collection accepts.
NextHookOutput ==
    \E n \in StoreCollections :
        \/ \E id \in Ids : GetItem("c1", n, id, DefaultOptions)
        \/ \E id \in Ids : Remove("c1", n, id, DefaultOptions)
        \/ \E ids \in SUBSET Ids : BulkRemove("c1", n, ids, DefaultOptions)
        \/ \E item \in SavedItems : \E uuid \in Uuids(<<item>>) :
              Insert("c1", n, item, DefaultOptions, uuid[1])
        \/ \E item \in SavedItems : Update("c1", n, item, DefaultOptions)
        \/ \E items \in BulkItems(SavedItems) : \E uuids \in Uuids(items) :
              BulkInsert("c1", n, items, DefaultOptions, uuids)
        \/ \E items \in BulkItems(SavedItems) : BulkUpdate("c1", n, items, DefaultOptions)

SpecHookOutput == InitHookOutput /\ [][NextHookOutput]_vars

\* A caller that builds a filter with eq and ne, hands it to a query, goes on
\* with the builder and runs the query, on a collection another handle and
\* the caller insert into.
NextHandOff ==
    \/ \E n \in StoreCollections, item \in SavedItems : \E uuid \in Uuids(<<item>>) :
          Insert("c1", n, item, DefaultOptions, uuid[1])
              \/ Insert("c2", n, item, DefaultOptions, uuid[1])
    \/ \E v \in {"a", "b"} : \E m \in {<<"eq", "$eq">>, <<"ne", "$ne">>} :
          Refine(m[1], equality(queryObject, m[2], "f", v,
                                [kind |-> "undefined", caseSensitive |-> Absent]))
    \/ QueryFilter
    \/ \E limit \in {1, 100}, o \in SuppressOptions :
          QueryFind("c1", StoreFilter(configFilter(queryConfig, queryObject)), 0, limit, o)

SpecHandOff == InitFilter /\ [][NextHandOff]_vars

\* A call of a builder method that threw.
FailedCall ==
    /\ last'.op \in {"between", "hasAll", "hasSome", "in", "nin", "gte", "gt", "lt", "lte",
                     "startsWith", "endsWith", "contains", "eq", "ne", "exists", "type",
                     "and", "nor", "or", "not"}
    /\ last'.error # "none"

\* C30: a call of a Filter Builder method that fails the validation of its
\* arguments (an invalid property, a range of mismatched types or with
\* start > end, a value that is no array, no boolean or no supported type,
\* invalid options, an invalid sub-filter) leaves the filter object the
\* builder has accumulated exactly as it was before the call.
C30_FailedCallKeepsFilter ==
    [][FailedCall => queryObject' = queryObject]_vars

\* A call of between with start > end has thrown at a builder that had
\* accumulated a predicate and a sub-filter before.
C30_Witness ==
    /\ last.op = "between" /\ last.error = "range"
    /\ "f" \in DOMAIN queryObject /\ "$and" \in DOMAIN queryObject

\* A call of eq or ne on a valid property with the number 7 and options that
\* hold a boolean caseSensitive.
CaseSensitiveNumber ==
    /\ last'.op \in {"eq", "ne"}
    /\ \E o \in EqualityOptions, m \in {<<"eq", "$eq">>, <<"ne", "$ne">>} :
          /\ isRealObject(o) /\ o.caseSensitive \in {"true", "false"}
          /\ Refine(m[1], equality(queryObject, m[2], "f", "n7", o))

\* C32: eq() and ne() called with an options object that has a caseSensitive
\* key together with a value that is no string fail with a SyntaxError and
\* add no predicate to the filter, for every boolean value of caseSensitive.
C32_CaseSensitiveOnlyForStrings ==
    [][CaseSensitiveNumber => last'.error = "syntax" /\ queryObject' = queryObject]_vars

\* eq with a number and a caseSensitive option has thrown the SyntaxError at a
\* builder that already held a predicate on the property.
C32_Witness ==
    /\ last.op = "eq" /\ last.error = "syntax"
    /\ "f" \in DOMAIN queryObject

\* A call of execute() on the aggregate the caller built.
ExecuteStep ==
    \E o \in SuppressOptions, rejected \in BOOLEAN : AggregateExecute("c1", o, rejected)

\* C40: aggregate.execute() leaves the accumulated list of pipeline stages of
\* the DataAggregate unchanged, so executing the same aggregate twice sends
\* the same pipeline to the store both times, also when the verdict is
\* Owned-Items.
C40_ExecuteKeepsStages == [][ExecuteStep => stages' = stages]_vars

\* C38: in every reachable state of a Query Result, from its construction by
\* find() through any number of next() calls, currentPage <= totalPages holds,
\* for every totalCount (including 0), limit and skip.
C38_PageBounds ==
    queryResult # NoQueryResult => queryResult.currentPage <= queryResult.totalPages

\* C39: a caller that repeats next() while hasNext() is true, with every
\* cursor call succeeding, reaches a state where hasNext() is false after
\* finitely many calls, for every totalCount, limit and skip and also when
\* matching documents are removed between calls.
C39_PaginationTerminates ==
    [](pc["c1"] = HasNextPoint => <>(~hasNext(queryResult)))

\* C33: update() and bulkUpdate() fail when no document with the given _id
\* exists in the collection (or, under Owned-Items, none owned by the caller);
\* they never report success for an item that was not updated. last.owners
\* holds the owners of the documents the storage call matched.
C33_UpdateRequiresItem ==
    last.op \in {"update", "bulkUpdate"} /\ last.error = "none" => last.owners # {}

\* save() validates for Insert an item without the field f against a schema
\* that declares f with required: false and no default.
OptionalFieldInsert ==
    /\ schema.kind = "custom" /\ schema.required = "false" /\ schema.default = NoKey
    /\ pc["c1"].op = "save" /\ ~pc["c1"].exist /\ pc["c1"].item.f = NoKey
    /\ \E uuid \in Ids \cup {NoKey} : SaveWrite("c1", uuid)

\* C36: validating an item for Insert against a schema whose field is
\* declared with required: false and no default succeeds when the item lacks
\* that field, and the field is left absent.
C36_OptionalFieldStaysOptional ==
    [][OptionalFieldInsert
       => /\ last'.error = "none"
          /\ \A id \in last'.created : store'[id].f = NoKey]_vars

\* save() writes after its existence probe found no document with the item's
\* _id, and a document with that _id has been created since.
StaleSaveWrite ==
    /\ pc["c1"].op = "save" /\ ~pc["c1"].exist
    /\ pc["c1"].item._id \in DOMAIN store
    /\ \E uuid \in Ids \cup {NoKey} : SaveWrite("c1", uuid)

\* C37: under every interleaving of two callers' save() or insert() calls for
\* the same _id, once a document exists its _owner and _createdDate are never
\* changed by a save() whose existence probe ran before the document was
\* created.
C37_SaveKeepsCreatedDocument ==
    [][StaleSaveWrite
       => /\ store'[pc["c1"].item._id].owner = store[pc["c1"].item._id].owner
          /\ store'[pc["c1"].item._id].created = store[pc["c1"].item._id].created]_vars

\* C34: in the result of bulkInsert, stats.skippedIds holds exactly the ids of
\* the input items that were not inserted, so skippedIds and insertedIds are
\* disjoint and together cover the ids of all input items. last.created holds
\* the ids the storage call inserted.
C34_BulkInsertStatistics ==
    last.op = "bulkInsert" /\ last.error = "none"
       => /\ last.returned.skippedIds \cap last.returned.insertedIds = {}
          /\ last.returned.skippedIds \cap last.created = {}

\* C35: for every before/after hook, when the hook returns a value that is not
\* of the expected shape (a non-object for item hooks, a non-array or an array
\* containing non-objects for bulk item hooks, a non-string for id hooks), the
\* operation continues with the original payload and does not fail because of
\* the hook's return value.
C35_MalformedHookOutputIgnored ==
    /\ last.error \notin {"hook", "hookOutput"}
    /\ \A id \in DOMAIN store : store[id].f = "a"

\* C31: after a Filter Builder has been handed to an executor with
\* query.filter(f) or aggregate.filter(f), later calls on the builder f (or
\* handing f to a second executor and using that one) do not change the filter
\* that the first executor uses in find(), count() or execute(): the filter of
\* the page read is the one the builder held at the hand-off.
C31_FilterSnapshot ==
    [][FoundStep /\ queryConfig.filter # "null"
          => queryResult'.cursor.filter = StoreFilter(queryConfig.handed)]_vars

====
